---- MODULE Spec2Model ----
(***************************************************************************)
(* Dispatch engine of the relaymesh githook worker SDK (python):           *)
(* Worker.handle_message, the per-topic delivery callback with its         *)
(* semaphore, the registration calls and run(), and the helpers they call. *)
(*                                                                         *)
(* The specifications share the worker's state:                            *)
(*   Spec            one delivery callback at a time, the message pipeline *)
(*                   of handle_message step by step, with the calls it     *)
(*                   makes recorded in `trace`;                            *)
(*   SpecMiddleware  the same pipeline for workers with middleware;        *)
(*   SpecDelivery    NumCallbacks delivery callbacks running in parallel   *)
(*                   threads around the worker's semaphore;                *)
(*   SpecSetup       add_topics, handle_topic, handle_rule and run() up to *)
(*                   the start of the subscribers;                         *)
(*   SpecFanout      run() from there on: the task threads of _run_tasks,  *)
(*                   the subscribers' start loops, the watcher thread and  *)
(*                   Worker.close, the join and on_exit (SpecFanoutFair:   *)
(*                   the same with every thread scheduled fairly);         *)
(*   SpecComposite   concurrent start() calls on one composite subscriber; *)
(*   SpecCancel      the pipeline of Spec while the caller of run() may    *)
(*                   set the cancellation Event;                           *)
(*   SpecRetryDecision, SpecCodec                                          *)
(*                   normalize_retry_decision and DefaultCodec.decode      *)
(*                   applied to drawn arguments;                           *)
(*   SpecOAuth       two callers of oauth2_token_from_config around the    *)
(*                   module's token cache;                                 *)
(*   SpecOptions     New(options..): Worker.apply option by option, then   *)
(*                   run();                                                *)
(*   SpecSCMCache    two threads calling get and add on the SCM client     *)
(*                   cache, statement by statement.                        *)
(***************************************************************************)
EXTENDS Integers, Sequences, FiniteSets, TLC

\* ------------------------------------------------------------------ bounds
MaxListeners == 2
MaxRetryCount == 2
MaxConcurrency == 2
NumCallbacks == 3
MaxMiddleware == 3
MaxTopics == 3
MaxClock == 20
MaxOptions == 4
CacheSize == 2
DEFAULT_SCM_CACHE_SKEW_SECONDS == 30

\* ------------------------------------------------------- values and inputs
\* Python's None, for an error slot that holds no exception.
None == "None"

\* An optional option value: <<>> is None, <<v>> is the value v.
RetryCountOptions == {<<>>} \cup {<<n>> : n \in -1..MaxRetryCount}
ConcurrencyOptions == {<<>>} \cup {<<n>> : n \in -1..MaxConcurrency}

EVENT_LOG_STATUS_SUCCESS == "SUCCESS"
EVENT_LOG_STATUS_FAILED == "FAILED"
METADATA_KEY_LOG_ID == "log_id"
METADATA_KEY_DRIVER == "driver"
METADATA_KEY_PROVIDER == "provider"
METADATA_KEY_EVENT == "event"

\* Exceptions raised by the codec, the client provider and the handler.
Errors == {"E1", "E2"}
\* Exceptions raised by a listener and by the retry policy.
ListenerError == "EL"
PolicyError == "EP"

\* str(err) of each exception.
ErrStr(err) ==
    CASE err = "E1" -> "boom"
      [] err = "E2" -> "bad"
      [] err = "EL" -> "listener failed"
      [] err = "EP" -> "policy failed"
      [] OTHER -> "None"

Topics == {"t1", "t2"}
EventTypes == {"push", "ping"}
LogIds == {"L1"}
DriverValues == {"amqp", "AMQP", "kafka"}

\* str.lower() on the driver values a message can carry.
Lower(s) ==
    CASE s = "AMQP" -> "amqp"
      [] OTHER -> s

\* The metadata dicts of the delivered messages: each key present or absent.
Metadatas ==
    { md \in UNION {[K -> LogIds \cup DriverValues] :
                       K \in SUBSET {METADATA_KEY_LOG_ID, METADATA_KEY_DRIVER}} :
        /\ METADATA_KEY_LOG_ID \in DOMAIN md => md[METADATA_KEY_LOG_ID] \in LogIds
        /\ METADATA_KEY_DRIVER \in DOMAIN md => md[METADATA_KEY_DRIVER] \in DriverValues }

\* dict.get(key, default)
DictGet(d, key, default) == IF key \in DOMAIN d THEN d[key] ELSE default

Max(a, b) == IF a >= b THEN a ELSE b
Min(a, b) == IF a <= b THEN a ELSE b

\* ------------------------------------------------------------------- state
VARIABLES
    retry_count,      \* Worker.retry_count
    concurrency,      \* Worker.concurrency
    semaphore,        \* free permits of Worker.semaphore
    listeners,        \* Worker.listeners, a sequence of listener ids
    client_provider,  \* TRUE iff Worker.client_provider is not None
    topic_handlers,   \* Worker.topic_handlers: topic -> handler
    type_handlers,    \* Worker.type_handlers: event type -> handler
    middleware,       \* Worker.middleware, in registration order
    allowed_topics,   \* Worker.allowed_topics
    topics,           \* Worker.topics, a list
    topic_drivers,    \* Worker.topic_drivers: topic -> driver id
    rule_handlers,    \* Worker.rule_handlers, in insertion order: [id, handler]
    default_driver_id,\* Worker.default_driver_id
    subscriber,       \* Worker.subscriber: None or the injected subscriber
    validate,         \* Worker.validate
    rules,            \* the rules the control plane held when run() asked
    driver_records,   \* the Driver records it held when run() built subscribers
    run_pc,           \* "setup", or how run() went on: "started", "failed"
    run_error,        \* the exception that left run(), or NoError
    run_calls,        \* the listener calls made by run(), in order
    started,          \* the Subscriber.start calls: <<subscriber, topic>>
    last_call,        \* the handle_topic call just made and what became of it
    run_ctx,          \* what run() was given as ctx: "none", "event", "context"
    signal,           \* ctx.signal after resolve_context: "none", "clear", "set"
    tasks,            \* the fan-out threads: <<subscriber, topic>> -> its state
    inner,            \* _RelaybusSubscriber._inner of each driver subscriber (<<>>: None)
    closed,           \* the connections and subscribers close() has closed
    close_calls,      \* the Subscriber.close calls of Worker.close, in order
    watcher,          \* the watcher thread: "none", "waiting", "closing", "done"
    errors,           \* the errors list of _run_tasks, in append order
    threads,          \* _MultiSubscriber.threads: the list object it refers to
    thread_lists,     \* the list objects made by `self.threads = []`, by maker
    starts,           \* the _MultiSubscriber.start calls: topic -> its state
    child_starts,     \* the child threads: <<topic, i>> -> "running", "returned"
    input,            \* the argument a helper is applied to (helper specifications)
    output,           \* <<what the helper returned>>, <<>> before it has
    now,              \* the clock: time.time() and datetime.now()
    token_cache,      \* oauth2._token_cache: its fields token, key, expires_at
    token_calls,      \* the oauth2_token_from_config calls: caller -> its state
    items,            \* _SCMClientCache.items: key -> [client, expires_at]
    order,            \* _SCMClientCache.order, most recently used first
    lock,             \* _SCMClientCache.lock: None, or the thread that holds it
    cache_calls,      \* the get and add calls on the cache: thread -> its state
    uses,             \* the keys a get returned or an add stored, latest first
    pc,               \* position of the delivery callback of Spec
    topic,            \* the subscription topic of the callback
    msg,              \* the delivered message: [topic, metadata]
    evt,              \* the decoded event, or NilEvent
    handler,          \* the resolved handler, or None
    wrapped,          \* wrap(handler): the callables of the chain, outermost first
    attempt,          \* handler attempts made so far
    last_err,         \* last_err of handle_message (None: no error)
    decision,         \* the normalised retry decision
    result,           \* what handle_message returned: "none", "True", "False"
    cb_result,        \* what the delivery callback returned
    trace,            \* the calls handle_message made, in order
    cb                \* SpecDelivery: the state of each parallel callback

scmVars == <<items, order, lock, cache_calls, uses>>
auxVars == <<input, output, now, token_cache, token_calls, scmVars>>
setupVars == <<allowed_topics, topics, topic_drivers, rule_handlers,
               default_driver_id, subscriber, validate, rules,
               driver_records, run_pc, run_error, run_calls, started,
               last_call, run_ctx, signal, tasks, inner, closed, close_calls,
               watcher, errors, threads, thread_lists, starts, child_starts,
               auxVars>>
workerVars == <<retry_count, concurrency, listeners, client_provider,
                topic_handlers, type_handlers, middleware, setupVars>>
msgVars == <<pc, topic, msg, evt, handler, wrapped, attempt, last_err, decision,
             result, cb_result, trace>>
vars == <<workerVars, msgVars, semaphore, cb>>
dispatchVars == <<retry_count, concurrency, listeners, client_provider,
                  type_handlers, middleware>>
compositeVars == <<threads, thread_lists, starts, child_starts>>
fanVars == <<run_ctx, signal, tasks, inner, closed, close_calls, watcher, errors,
             compositeVars, auxVars>>
runVars == <<run_pc, run_error, run_calls, started, fanVars>>
optionVars == <<default_driver_id, subscriber, validate>>

NilEvent == [nil |-> TRUE, type |-> "", client |-> FALSE]
NoDecision == [retry |-> FALSE, nack |-> FALSE]


\* ------------------------------------------------------------ pure helpers
\* _normalize_retry_count: None and negative values become 0.
normalize_retry_count(value) ==
    IF value = <<>> THEN 0
    ELSE IF value[1] < 0 THEN 0
    ELSE value[1]

\* Worker.__init__: self.concurrency = max(1, int(options.concurrency or 1))
clamp_concurrency(value) ==
    Max(1, IF value = <<>> \/ value[1] = 0 THEN 1 ELSE value[1])

\* Python values a dict can hold under a key, and bool() of them.
PyValues == {"True", "False", "None", "yes"}
Bool(v) == v \notin {"False", "None", "", "0"}

\* What a retry policy can return: a RetryDecision, a dict (of booleans, in
\* the pipeline specifications), or anything else.
BoolPairs == [retry : BOOLEAN, nack : BOOLEAN]
DecisionDictKeys == {"retry", "Retry", "nack", "Nack"}
DecisionDicts(values) == UNION {[K -> values] : K \in SUBSET DecisionDictKeys}
PolicyReturns ==
    {[kind |-> "RetryDecision", val |-> d] : d \in BoolPairs}
    \cup {[kind |-> "dict", val |-> d] : d \in DecisionDicts({"True", "False"})}
    \cup {[kind |-> "other", val |-> <<>>]}

\* Mutant of normalize_retry_decision: a value that is neither a
\* RetryDecision nor a dict gives a decision that neither retries nor nacks.
normalize_retry_decision_drop(value) ==
    CASE value.kind = "RetryDecision" -> value.val
      [] value.kind = "dict" ->
            [retry |-> Bool(DictGet(value.val, "retry",
                                    DictGet(value.val, "Retry", "False"))),
             nack  |-> Bool(DictGet(value.val, "nack",
                                    DictGet(value.val, "Nack", "True")))]
      [] OTHER -> [retry |-> FALSE, nack |-> FALSE]

\* normalize_retry_decision: a RetryDecision as it is; of a dict,
\* bool(value.get("retry", value.get("Retry", False))) and
\* bool(value.get("nack", value.get("Nack", True))); else RetryDecision().
normalize_retry_decision(value) ==
    CASE value.kind = "RetryDecision" -> value.val
      [] value.kind = "dict" ->
            [retry |-> Bool(DictGet(value.val, "retry",
                                    DictGet(value.val, "Retry", "False"))),
             nack  |-> Bool(DictGet(value.val, "nack",
                                    DictGet(value.val, "Nack", "True")))]
      [] OTHER -> [retry |-> FALSE, nack |-> TRUE]

\* Mutant of should_requeue: the driver value is compared as it is.
should_requeue_exact(m) ==
    DictGet(m.metadata, METADATA_KEY_DRIVER, "") = "amqp"

\* _should_requeue: the driver metadata value, lower-cased, is "amqp".
should_requeue(m) ==
    Lower(DictGet(m.metadata, METADATA_KEY_DRIVER, "")) = "amqp"

\* The delivery callback's return value (worker.py 365-367).
PyBool(b) == IF b THEN "True" ELSE "False"
callback_result(should_nack, m) ==
    IF should_nack = "True" /\ should_requeue(m) THEN "True" ELSE "False"

\* Mutant of resolve_handler: the event type's handler is looked up first.
resolve_handler_type_first(t, e) ==
    IF e.type \in DOMAIN type_handlers THEN type_handlers[e.type]
    ELSE DictGet(topic_handlers, t, None)

\* handle_message line 441: topic_handlers.get(topic) or type_handlers.get(evt.type)
resolve_handler(t, e) ==
    IF t \in DOMAIN topic_handlers THEN topic_handlers[t]
    ELSE DictGet(type_handlers, e.type, None)

\* Mutant of loop_exit: the loop looks at the cancellation signal and gives
\* up the remaining attempts once it is set.
loop_exit_until_cancelled(err, made, attempts) ==
    IF err = None THEN "ok_finish"
    ELSE IF made < attempts /\ signal # "set" THEN "attempt"
    ELSE "fail_finish"

\* Mutant of loop_exit: the loop has no `break`, a success does not end it.
loop_exit_no_break(err, made, attempts) ==
    IF made < attempts THEN "attempt"
    ELSE IF err = None THEN "ok_finish"
    ELSE "fail_finish"

\* The retry loop of handle_message (lines 453-459): break on success, go on
\* while attempts remain, leave with the last error after the last attempt.
loop_exit(err, made, attempts) ==
    IF err = None THEN "ok_finish"
    ELSE IF made < attempts THEN "attempt"
    ELSE "fail_finish"

\* list(reversed(s))
Reversed(s) == [i \in 1..Len(s) |-> s[Len(s) + 1 - i]]

\* The loop of Worker.wrap over the middleware list `mws`: each mw(wrapped)
\* gives a callable that enters mw's wrapper and, from there, `chain`.
RECURSIVE compose(_, _)
compose(mws, chain) ==
    IF mws = <<>> THEN chain
    ELSE compose(Tail(mws), <<Head(mws)>> \o chain)

\* Mutant of wrap: the middleware list is walked in registration order.
wrap_forward(h) == compose(middleware, <<h>>)

\* Worker.wrap: `for mw in reversed(self.middleware): wrapped = mw(wrapped)`.
wrap(h) == compose(Reversed(middleware), <<h>>)

\* str(err or "") of update_event_log_status
status_message(err) == IF err = None THEN "" ELSE ErrStr(err)

\* Mutant of can_acquire: a permit is handed out when none is left.
can_acquire_off_by_one(permits) == permits >= 0

\* threading.Semaphore.acquire: a permit can be taken when one is free.
can_acquire(permits) == permits > 0

\* Mutant of release: the permit is given back only when the block of the
\* `with` statement returns.
release_on_return(permits, how) ==
    IF how = "returned" THEN permits + 1 ELSE permits

\* `with self.semaphore`, __exit__: the permit is given back however the
\* block ends, "returned" or "raised".
release(permits, how) == permits + 1

\* ---------------------------------------------------------------- the trace
Entry(op, l, e, err, log_id, status, raised) ==
    [op |-> op, listener |-> l, evt |-> e, err |-> err, log_id |-> log_id,
     status |-> status, raised |-> raised, callee |-> ""]

\* The entry of a middleware wrapper or of the user handler `callee`.
CalleeEntry(op, callee, err) ==
    [Entry(op, 0, "evt", err, "", "", err # None) EXCEPT !.callee = callee]

EvtTag(e) == IF e.nil THEN "nil" ELSE "evt"

\* notify_*: the listeners are called in order; the first one that raises (k,
\* 0 for none) ends the loop, its exception leaving the method.
notify_calls(op, k, e, err) ==
    [i \in 1..(IF k = 0 THEN Len(listeners) ELSE k) |->
        Entry(op, listeners[i], e, err, "", "", i = k)]

\* Mutant of invoke_calls: the wrappers run on the first attempt only, the
\* retries call the user handler directly.
invoke_calls_unwrapped_retries(chain, outcome) ==
    IF attempt = 0
    THEN [i \in 1..Len(chain) |->
            CalleeEntry(IF i = Len(chain) THEN "handler" ELSE "middleware",
                        chain[i], outcome)]
    ELSE <<CalleeEntry("handler", chain[Len(chain)], outcome)>>

\* One call of the composed handler: every wrapper is entered, outermost
\* first, and passes the call on; the user handler, entered last, returns or
\* raises `outcome`, which the wrappers pass back.
invoke_calls(chain, outcome) ==
    [i \in 1..Len(chain) |->
        CalleeEntry(IF i = Len(chain) THEN "handler" ELSE "middleware",
                    chain[i], outcome)]


\* --------------------------------- registration and run() (SpecSetup): values
\* The topic strings an application passes, and str.strip() on them.
RawTopics == {"", "t1", " t1 ", "t2"}
Trim(s) ==
    CASE s = " t1 " -> "t1"
      [] s = " t2 " -> "t2"
      [] s = " " -> ""
      [] OTHER -> s

Drivers == {"D1", "D2"}
\* The driver argument of handle_topic(topic, driver_id, handler).
RawDrivers == {""} \cup Drivers
TopicHandler == "h_topic"
RuleIds == {"r1", "r2"}
\* The handler an application registers for each rule.
RuleHandlerOf(rule_id) == IF rule_id = "r1" THEN "h_rule_1" ELSE "h_rule_2"
INJECTED == "injected"

\* The rule tables the control plane can hold (RulesClient.get_rule and
\* list_rules answer from the same table).
Rule(emit, driver_id) == [emit |-> emit, driver_id |-> driver_id]
RuleTables ==
    { \* no rule at all
      <<>>,
      \* two rules with distinct first emit topics
      [r \in RuleIds |-> IF r = "r1" THEN Rule(<<"t1">>, "D1")
                         ELSE Rule(<<" t2 ", "t1">>, "D2")],
      \* two rules emitting the same topic first, under different drivers
      [r \in RuleIds |-> IF r = "r1" THEN Rule(<<"t1">>, "D1")
                         ELSE Rule(<<"t1", "t2">>, "D2")],
      \* one rule only, a second topic under the same driver
      [r \in {"r1"} |-> Rule(<<"t2", "t1">>, "D1")],
      \* a rule without emit topic, and one without driver
      [r \in RuleIds |-> IF r = "r1" THEN Rule(<<>>, "D1")
                         ELSE Rule(<<"t2">>, "")] }

\* What the control plane says of each driver build_driver_subscribers asks
\* for: a table over the driver ids of one run().
DriverTables ==
    UNION {[ds -> {"enabled", "disabled", "missing"}] : ds \in SUBSET Drivers}

\* An exception of run(): the message's format and its arguments.
Err(text, a, b) == [text |-> text, a |-> a, b |-> b]
NoError == Err("", "", "")

NoCall == [op |-> "", arg |-> "", driver |-> "", handler |-> "None",
           outcome |-> ""]
Call(op, arg, driver, h, outcome) ==
    [op |-> op, arg |-> arg, driver |-> driver, handler |-> h,
     outcome |-> outcome]

Range(s) == {s[i] : i \in DOMAIN s}

\* d[k] = v on a dict
Put(d, k, v) == [x \in DOMAIN d \cup {k} |-> IF x = k THEN v ELSE d[x]]

\* _unique: the first occurrence of each value, in order.
RECURSIVE unique(_)
unique(values) ==
    IF values = <<>> THEN <<>>
    ELSE LET out == unique(SubSeq(values, 1, Len(values) - 1))
             value == values[Len(values)]
         IN IF value \in Range(out) THEN out ELSE Append(out, value)

\* rule_handlers[rule_id] = handler on the insertion-ordered dict.
put_rule_handler(rhs, rule_id, h) ==
    IF \E i \in DOMAIN rhs : rhs[i].id = rule_id
    THEN [i \in DOMAIN rhs |->
             IF rhs[i].id = rule_id THEN [id |-> rule_id, handler |-> h] ELSE rhs[i]]
    ELSE Append(rhs, [id |-> rule_id, handler |-> h])

\* Mutant of topic_allowed: handle_topic does not look at allowed_topics.
topic_allowed_unchecked(t) == TRUE

\* handle_topic lines 173-175: a topic outside a non-empty allowed_topics is
\* logged and dropped.
topic_allowed(t) == allowed_topics = {} \/ t \in allowed_topics


\* ------------------------------------------------- construction (Spec, Init)
\* The registries a worker can hold when run() starts delivering: a handler
\* for topic t1 or none, a handler for event type push or none.
TopicRegistries == UNION {[K -> {"h_topic"}] : K \in SUBSET {"t1"}}
TypeRegistries == UNION {[K -> {"h_type"}] : K \in SUBSET {"push"}}
ListenerLists == {[i \in 1..n |-> i] : n \in 0..MaxListeners}

\* A callback that is not running a message.
MsgIdle ==
    /\ pc = "idle"
    /\ topic = ""
    /\ msg = [topic |-> "", metadata |-> <<>>]
    /\ evt = NilEvent
    /\ handler = None
    /\ wrapped = <<>>
    /\ attempt = 0
    /\ last_err = None
    /\ decision = NoDecision
    /\ result = "none"
    /\ cb_result = "none"
    /\ trace = <<>>

\* The registration state of the workers of Spec, SpecMiddleware and
\* SpecDelivery: a worker with an injected subscriber, add_topics(t1, t2),
\* The threads of the fan-out are not followed.
NoFanout ==
    /\ run_ctx = "none"
    /\ signal = "none"
    /\ tasks = <<>>
    /\ inner = <<>>
    /\ closed = {}
    /\ close_calls = <<>>
    /\ watcher = "none"
    /\ errors = <<>>

\* No composite subscriber is followed.
NoComposite ==
    /\ threads = None
    /\ thread_lists = <<>>
    /\ starts = <<>>
    /\ child_starts = <<>>

\* A token as the token endpoint knows it: the cache key of the configuration
\* it was issued for and the time it expires; NoToken is the empty string.
NoToken == [key |-> <<>>, expires_at |-> 0]
\* _TokenCache.__init__
EmptyTokenCache == [token |-> NoToken, key |-> <<>>, expires_at |-> 0]

\* _SCMClientCache.__init__, and no call on the cache.
NoCache ==
    /\ items = <<>>
    /\ order = <<>>
    /\ lock = None
    /\ cache_calls = <<>>
    /\ uses = <<>>

\* No helper is applied, and the token cache and the SCM client cache are as
\* their modules make them.
NoAux ==
    /\ input = None
    /\ output = <<>>
    /\ now = 0
    /\ token_cache = EmptyTokenCache
    /\ token_calls = <<>>
    /\ NoCache

\* handle_topic for the topics of topic_handlers, validation off, and run()
\* past its start of the subscribers.
Delivering ==
    /\ allowed_topics = Topics
    /\ topics = <<"t1", "t2">> \o
                (IF "t1" \in DOMAIN topic_handlers THEN <<"t1">> ELSE <<>>)
    /\ topic_drivers = <<>>
    /\ rule_handlers = <<>>
    /\ default_driver_id = ""
    /\ subscriber = INJECTED
    /\ validate = FALSE
    /\ rules = <<>>
    /\ driver_records = <<>>
    /\ run_pc = "started"
    /\ run_error = NoError
    /\ run_calls = notify_calls("on_start", 0, "", None)
    /\ started = {<<INJECTED, t>> : t \in Topics}
    /\ last_call = NoCall


\* Worker.__init__ followed by the registrations made before run(); the
\* concurrency option is left unset here (SpecDelivery draws it) and no
\* middleware is registered (SpecMiddleware draws the list).
WorkerInit ==
    /\ \E v \in RetryCountOptions : retry_count = normalize_retry_count(v)
    /\ concurrency = clamp_concurrency(<<>>)
    /\ semaphore = concurrency
    /\ listeners \in ListenerLists
    /\ client_provider \in BOOLEAN
    /\ topic_handlers \in TopicRegistries
    /\ type_handlers \in TypeRegistries
    /\ middleware = <<>>
    /\ Delivering
    /\ NoFanout
    /\ NoComposite
    /\ NoAux

Callbacks == 1..NumCallbacks
\* A callback that is not running: `ended` tells how its last message left
\* the callback, "" before any.
CbIdle == [pc |-> "idle", attempt |-> 0, ended |-> ""]

Init ==
    /\ WorkerInit
    /\ MsgIdle
    /\ cb = [c \in Callbacks |-> CbIdle]

\* ------------------------------------------------ the delivery callback (Spec)
\* _run_topic_subscriber.handler, entry: `with self.semaphore`, coerce_message,
\* then handle_message(ctx, topic, relay_msg) starts (log_id is read).
Deliver ==
    /\ pc \in {"idle", "cb_returned", "cb_raised"}
    /\ can_acquire(semaphore)
    /\ semaphore' = semaphore - 1
    /\ \E t \in Topics, md \in Metadatas :
          /\ topic' = t
          /\ msg' = [topic |-> t, metadata |-> md]
    /\ pc' = "decode"
    /\ evt' = NilEvent
    /\ handler' = None
    /\ wrapped' = <<>>
    /\ attempt' = 0
    /\ last_err' = None
    /\ decision' = NoDecision
    /\ result' = "none"
    /\ cb_result' = "none"
    /\ trace' = <<>>
    /\ UNCHANGED <<workerVars, cb>>

LogId == DictGet(msg.metadata, METADATA_KEY_LOG_ID, "")

\* handle_message lines 404-406: self.codec.decode(topic, msg) returns an event
\* or raises.
Decode ==
    /\ pc = "decode"
    /\ \/ \E ty \in EventTypes :
            /\ evt' = [nil |-> FALSE, type |-> ty, client |-> FALSE]
            /\ trace' = Append(trace, Entry("decode", 0, "nil", None, "", "", FALSE))
            /\ last_err' = None
            /\ pc' = "attach"
       \/ \E e \in Errors :
            /\ evt' = NilEvent
            /\ trace' = Append(trace, Entry("decode", 0, "nil", e, "", "", TRUE))
            /\ last_err' = e
            /\ pc' = "dec_status"
    /\ UNCHANGED <<workerVars, semaphore, cb, topic, msg, handler, wrapped, attempt,
                   decision, result, cb_result>>

\* handle_message lines 413-419: build_context, and the client provider's call
\* when one is configured.
AttachClient ==
    /\ pc = "attach"
    /\ IF ~client_provider
       THEN /\ pc' = "start"
            /\ UNCHANGED <<evt, trace, last_err>>
       ELSE \/ /\ evt' = [evt EXCEPT !.client = TRUE]
               /\ trace' = Append(trace, Entry("client", 0, "evt", None, "", "", FALSE))
               /\ pc' = "start"
               /\ UNCHANGED last_err
            \/ \E e \in Errors :
               /\ trace' = Append(trace, Entry("client", 0, "evt", e, "", "", TRUE))
               /\ last_err' = e
               /\ pc' = "cli_status"
               /\ UNCHANGED evt
    /\ UNCHANGED <<workerVars, semaphore, cb, topic, msg, handler, wrapped, attempt,
                   decision, result, cb_result>>

\* Mutant of AfterStatus: the success path lacks its `return False` and goes
\* on into the retry policy.
AfterStatusNoReturn ==
    [dec_status |-> "dec_error", cli_status |-> "cli_error",
     nh_status |-> "hm_returned", ok_status |-> "fail_policy",
     fail_status |-> "fail_policy"]

\* Where handle_message goes on after each of its calls.
AfterStatus ==
    [dec_status |-> "dec_error", cli_status |-> "cli_error",
     nh_status |-> "hm_returned", ok_status |-> "hm_returned",
     fail_status |-> "fail_policy"]
\* Mutant of AfterFinish: the failure path goes from on_message_finish
\* straight to the status update, without notify_error.
AfterFinishSkipsError ==
    [nh_finish |-> "nh_status", ok_finish |-> "ok_status",
     fail_finish |-> "fail_status"]
AfterFinish ==
    [nh_finish |-> "nh_status", ok_finish |-> "ok_status",
     fail_finish |-> "fail_error"]
AfterError ==
    [dec_error |-> "dec_policy", cli_error |-> "cli_policy",
     fail_error |-> "fail_status"]

\* The status handle_message reports at each of its update_event_log_status calls.
StatusAt ==
    [dec_status |-> EVENT_LOG_STATUS_FAILED, cli_status |-> EVENT_LOG_STATUS_FAILED,
     nh_status |-> EVENT_LOG_STATUS_SUCCESS, ok_status |-> EVENT_LOG_STATUS_SUCCESS,
     fail_status |-> EVENT_LOG_STATUS_FAILED]

\* Mutant of update_escapes: update_status is called outside any try.
update_escapes_unguarded(failed) == failed

\* update_event_log_status lines 601-608: `except Exception` logs the failure
\* of update_status, so no exception leaves the method.
update_escapes(failed) == FALSE

\* Worker.update_event_log_status: nothing without a log id; otherwise one
\* update_status call, whose failure is logged and swallowed. After the
\* SUCCESS updates handle_message returns False.
UpdateEventLogStatus ==
    /\ pc \in DOMAIN StatusAt
    /\ \E failed \in (IF LogId = "" THEN {FALSE} ELSE BOOLEAN) :
          /\ trace' = IF LogId = "" THEN trace
                      ELSE Append(trace,
                              Entry("update_status", 0, "", status_message(last_err),
                                    LogId, StatusAt[pc], failed))
          /\ pc' = IF update_escapes(failed) THEN "hm_raised" ELSE AfterStatus[pc]
    /\ result' = IF pc' = "hm_returned" THEN "False" ELSE result
    /\ UNCHANGED <<workerVars, semaphore, cb, topic, msg, evt, handler, wrapped, attempt,
                   last_err, decision, cb_result>>

\* Worker.notify_message_start
NotifyMessageStart ==
    /\ pc = "start"
    /\ \E k \in 0..Len(listeners) :
          /\ trace' = trace \o notify_calls("on_message_start", k, "evt", None)
          /\ pc' = IF k = 0 THEN "resolve" ELSE "hm_raised"
    /\ UNCHANGED <<workerVars, semaphore, cb, topic, msg, evt, handler, wrapped, attempt,
                   last_err, decision, result, cb_result>>

\* handle_message lines 441-452: the handler lookup, and wrap() when one is found.
ResolveHandler ==
    /\ pc = "resolve"
    /\ handler' = resolve_handler(topic, evt)
    /\ wrapped' = IF handler' = None THEN <<>> ELSE wrap(handler')
    /\ pc' = IF handler' = None THEN "nh_finish" ELSE "attempt"
    /\ UNCHANGED <<workerVars, semaphore, cb, topic, msg, evt, attempt,
                   last_err, decision, result, cb_result, trace>>

\* One pass of the retry loop: wrapped(event_ctx, evt) returns or raises.
InvokeHandler ==
    /\ pc = "attempt"
    /\ \E outcome \in {None} \cup Errors :
          /\ trace' = trace \o invoke_calls(wrapped, outcome)
          /\ last_err' = outcome
          /\ pc' = loop_exit(outcome, attempt + 1, retry_count + 1)
    /\ attempt' = attempt + 1
    /\ UNCHANGED <<workerVars, semaphore, cb, topic, msg, evt, handler, wrapped,
                   decision, result, cb_result>>

\* Worker.notify_message_finish
NotifyMessageFinish ==
    /\ pc \in DOMAIN AfterFinish
    /\ \E k \in 0..Len(listeners) :
          /\ trace' = trace \o notify_calls("on_message_finish", k, "evt", last_err)
          /\ pc' = IF k = 0 THEN AfterFinish[pc] ELSE "hm_raised"
    /\ UNCHANGED <<workerVars, semaphore, cb, topic, msg, evt, handler, wrapped, attempt,
                   last_err, decision, result, cb_result>>

\* Worker.notify_error
NotifyError ==
    /\ pc \in DOMAIN AfterError
    /\ \E k \in 0..Len(listeners) :
          /\ trace' = trace \o notify_calls("on_error", k, EvtTag(evt), last_err)
          /\ pc' = IF k = 0 THEN AfterError[pc] ELSE "hm_raised"
    /\ UNCHANGED <<workerVars, semaphore, cb, topic, msg, evt, handler, wrapped, attempt,
                   last_err, decision, result, cb_result>>

\* _call_retry_policy and the return of handle_message: decision.retry or
\* decision.nack. A policy that raises is not caught.
CallRetryPolicy ==
    /\ pc \in {"dec_policy", "cli_policy", "fail_policy"}
    /\ \/ \E v \in PolicyReturns :
            /\ decision' = normalize_retry_decision(v)
            /\ result' = PyBool(decision'.retry \/ decision'.nack)
            /\ trace' = Append(trace,
                  Entry("retry_policy", 0, EvtTag(evt), last_err, "", "", FALSE))
            /\ pc' = "hm_returned"
       \/ /\ trace' = Append(trace,
                  Entry("retry_policy", 0, EvtTag(evt), last_err, "", "", TRUE))
          /\ pc' = "hm_raised"
          /\ UNCHANGED <<decision, result>>
    /\ UNCHANGED <<workerVars, semaphore, cb, topic, msg, evt, handler, wrapped, attempt,
                   last_err, cb_result>>

\* _run_topic_subscriber.handler, exit: the value given back to the
\* subscriber, or the exception that left handle_message; the permit is
\* released either way.
CallbackExit ==
    /\ pc \in {"hm_returned", "hm_raised"}
    /\ semaphore' = release(semaphore, IF pc = "hm_returned" THEN "returned"
                                       ELSE "raised")
    /\ IF pc = "hm_returned"
       THEN /\ cb_result' = callback_result(result, msg)
            /\ pc' = "cb_returned"
       ELSE /\ cb_result' = "none"
            /\ pc' = "cb_raised"
    /\ UNCHANGED <<workerVars, cb, topic, msg, evt, handler, wrapped, attempt,
                   last_err, decision, result, trace>>

Next ==
    \/ Deliver
    \/ Decode
    \/ AttachClient
    \/ NotifyMessageStart
    \/ ResolveHandler
    \/ InvokeHandler
    \/ NotifyMessageFinish
    \/ NotifyError
    \/ UpdateEventLogStatus
    \/ CallRetryPolicy
    \/ CallbackExit

Spec == Init /\ [][Next]_vars


\* ------------------------------- cancellation during a message (SpecCancel)
\* A worker whose run() was given an Event, with one listener and a handler
\* for topic t1: the pipeline of Spec, and the caller of run() who may set
\* the Event at any step of it.
CancelInit ==
    /\ \E v \in RetryCountOptions : retry_count = normalize_retry_count(v)
    /\ concurrency = clamp_concurrency(<<>>)
    /\ semaphore = concurrency
    /\ listeners = <<1>>
    /\ client_provider = FALSE
    /\ topic_handlers = [t \in {"t1"} |-> "h_topic"]
    /\ type_handlers = <<>>
    /\ middleware = <<>>
    /\ Delivering
    /\ run_ctx = "event"
    /\ signal = "clear"
    /\ tasks = <<>>
    /\ inner = <<>>
    /\ closed = {}
    /\ close_calls = <<>>
    /\ watcher = "waiting"
    /\ errors = <<>>
    /\ NoComposite
    /\ NoAux
    /\ MsgIdle
    /\ cb = [c \in Callbacks |-> CbIdle]

\* threading.Event.set() by the caller of run() while handle_message is at
\* work in a subscriber's thread; `trace` notes where in the pipeline it fell.
SetSignalDuringMessage ==
    /\ signal = "clear"
    /\ pc \notin {"idle", "cb_returned", "cb_raised"}
    /\ signal' = "set"
    /\ trace' = Append(trace, Entry("signal_set", 0, "", None, "", "", FALSE))
    /\ UNCHANGED <<dispatchVars, topic_handlers, allowed_topics, topics,
                   topic_drivers, rule_handlers, rules, driver_records,
                   optionVars, run_pc, run_error, run_calls, started,
                   last_call, run_ctx, tasks, inner, closed, close_calls,
                   watcher, errors, compositeVars, auxVars, semaphore, cb, pc, topic,
                   msg, evt, handler, wrapped, attempt, last_err, decision,
                   result, cb_result>>

CancelNext ==
    \/ Next
    \/ SetSignalDuringMessage

SpecCancel == CancelInit /\ [][CancelNext]_vars


\* ------------------------------------------ middleware (SpecMiddleware)
\* The middleware callables an application registers.
MiddlewareName(i) ==
    CASE i = 1 -> "M1"
      [] i = 2 -> "M2"
      [] i = 3 -> "M3"
      [] i = 4 -> "M4"
      [] OTHER -> "M5"
Middlewares == {MiddlewareName(i) : i \in 1..MaxMiddleware}

\* Worker.middleware after construction: up to MaxMiddleware distinct
\* middleware in any registration order.
MiddlewareLists ==
    UNION {{s \in [1..n -> Middlewares] :
               \A i, j \in 1..n : i # j => s[i] # s[j]} : n \in 0..MaxMiddleware}

\* A worker with middleware, a handler for topic t1 and one for type push,
\* and no or one retry.
MiddlewareInit ==
    /\ \E v \in {<<0>>, <<1>>} : retry_count = normalize_retry_count(v)
    /\ concurrency = clamp_concurrency(<<>>)
    /\ semaphore = concurrency
    /\ listeners = <<>>
    /\ client_provider = FALSE
    /\ topic_handlers = [t \in {"t1"} |-> "h_topic"]
    /\ type_handlers = [ty \in {"push"} |-> "h_type"]
    /\ middleware \in MiddlewareLists
    /\ Delivering
    /\ NoFanout
    /\ NoComposite
    /\ NoAux
    /\ MsgIdle
    /\ cb = [c \in Callbacks |-> CbIdle]

SpecMiddleware == MiddlewareInit /\ [][Next]_vars


\* ------------------------------------- parallel deliveries (SpecDelivery)
\* Every (subscriber, topic) pair has its own thread in _run_tasks, and each
\* subscriber calls the same closure of _run_topic_subscriber for each message.
\* The callbacks share Worker.semaphore; handle_message is followed here only
\* as far as the semaphore and the handler invocations are concerned.
DeliveryInit ==
    /\ \E v \in RetryCountOptions : retry_count = normalize_retry_count(v)
    /\ \E v \in ConcurrencyOptions : concurrency = clamp_concurrency(v)
    /\ semaphore = concurrency
    /\ listeners = <<>>
    /\ client_provider = FALSE
    /\ topic_handlers = [t \in {"t1"} |-> "h_topic"]
    /\ type_handlers = <<>>
    /\ middleware = <<>>
    /\ Delivering
    /\ NoFanout
    /\ NoComposite
    /\ NoAux
    /\ MsgIdle
    /\ cb = [c \in Callbacks |-> CbIdle]

\* A subscriber thread calls the delivery callback and reaches `with self.semaphore`.
CbDeliver(c) ==
    /\ cb[c].pc = "idle"
    /\ cb' = [cb EXCEPT ![c] = [pc |-> "waiting", attempt |-> 0, ended |-> ""]]
    /\ UNCHANGED <<workerVars, msgVars, semaphore>>

\* Semaphore.__enter__: blocks until a permit is free, then takes it.
CbAcquire(c) ==
    /\ cb[c].pc = "waiting"
    /\ can_acquire(semaphore)
    /\ semaphore' = semaphore - 1
    /\ cb' = [cb EXCEPT ![c].pc = "pipeline"]
    /\ UNCHANGED <<workerVars, msgVars>>

\* handle_message up to the retry loop: decode, client, on_message_start and
\* the handler lookup either lead to the first attempt or end the message
\* (return or exception) without any handler call.
CbPipeline(c) ==
    /\ cb[c].pc = "pipeline"
    /\ \E next \in {"attempt", "leaving"} :
          cb' = [cb EXCEPT ![c].pc = next]
    /\ UNCHANGED <<workerVars, msgVars, semaphore>>

\* wrapped(event_ctx, evt) is called: the user handler is executing.
CbInvoke(c) ==
    /\ cb[c].pc = "attempt"
    /\ cb' = [cb EXCEPT ![c].pc = "handler"]
    /\ UNCHANGED <<workerVars, msgVars, semaphore>>

\* The user handler returns or raises; the retry loop goes on or ends.
CbHandlerEnds(c) ==
    /\ cb[c].pc = "handler"
    /\ \E outcome \in {None} \cup Errors :
          LET made == cb[c].attempt + 1
              next == loop_exit(outcome, made, retry_count + 1)
          IN cb' = [cb EXCEPT ![c] =
                       [pc |-> IF next = "attempt" THEN "attempt" ELSE "leaving",
                        attempt |-> made, ended |-> ""]]
    /\ UNCHANGED <<workerVars, msgVars, semaphore>>

\* The rest of handle_message, which returns or lets the exception of a
\* listener or of the retry policy escape, then Semaphore.__exit__.
CbRelease(c) ==
    /\ cb[c].pc = "leaving"
    /\ \E how \in {"returned", "raised"} :
          /\ semaphore' = release(semaphore, how)
          /\ cb' = [cb EXCEPT ![c] = [CbIdle EXCEPT !.ended = how]]
    /\ UNCHANGED <<workerVars, msgVars>>

DeliveryNext ==
    \E c \in Callbacks :
        \/ CbDeliver(c)
        \/ CbAcquire(c)
        \/ CbPipeline(c)
        \/ CbInvoke(c)
        \/ CbHandlerEnds(c)
        \/ CbRelease(c)

SpecDelivery == DeliveryInit /\ [][DeliveryNext]_vars

\* User handlers executing right now, over all delivery callbacks.
RunningHandlers == {c \in Callbacks : cb[c].pc = "handler"}


\* ------------------------------------------- registration (SpecSetup): actions

\* The topic lists handed to add_topics.
TopicLists == UNION {[1..n -> RawTopics] : n \in 1..2}

\* Worker.add_topics
AddTopics(ts) ==
    LET kept == SelectSeq([i \in DOMAIN ts |-> Trim(ts[i])], LAMBDA t : t # "")
    IN /\ run_pc = "setup"
       /\ Len(topics) + Len(kept) <= MaxTopics
       /\ topics' = topics \o kept
       /\ allowed_topics' = allowed_topics \cup Range(kept)
       /\ last_call' = NoCall
       /\ UNCHANGED <<topic_handlers, topic_drivers, rule_handlers, optionVars,
                      rules, driver_records, runVars, dispatchVars, msgVars,
                      semaphore, cb>>

\* The second argument of handle_topic: the handler itself, or a driver id
\* followed by the handler (which may be None: one driver id stands for all
\* there, the call returns before it reads the driver).
HandleTopicArgs ==
    {[driver |-> "", handler |-> TopicHandler, two_args |-> TRUE],
     [driver |-> "D1", handler |-> None, two_args |-> FALSE]}
    \cup {[driver |-> d, handler |-> TopicHandler, two_args |-> FALSE] :
             d \in RawDrivers}

\* handle_topic without its return on a missing handler.
handle_topic_outcome_any_handler(trimmed, args) ==
    LET driver_id == IF args.two_args THEN "" ELSE Trim(args.driver)
        resolved == IF driver_id = "" THEN default_driver_id ELSE driver_id
    IN IF trimmed = "" THEN "ignored"
       ELSE IF ~topic_allowed(trimmed) THEN "not_subscribed"
       ELSE IF resolved = "" /\ subscriber = None THEN "driver_required"
       ELSE "bound"

\* What handle_topic does with its arguments (worker.py 170-198).
handle_topic_outcome(trimmed, args) ==
    LET driver_id == IF args.two_args THEN "" ELSE Trim(args.driver)
        resolved == IF driver_id = "" THEN default_driver_id ELSE driver_id
    IN IF trimmed = "" THEN "ignored"
       ELSE IF ~topic_allowed(trimmed) THEN "not_subscribed"
       ELSE IF args.handler = None THEN "ignored"
       ELSE IF resolved = "" /\ subscriber = None THEN "driver_required"
       ELSE "bound"

\* Worker.handle_topic
HandleTopic(raw, args) ==
    LET trimmed == Trim(raw)
        outcome == handle_topic_outcome(trimmed, args)
        driver_id == IF args.two_args THEN "" ELSE Trim(args.driver)
        resolved == IF driver_id = "" THEN default_driver_id ELSE driver_id
    IN /\ run_pc = "setup"
       /\ last_call' = Call("handle_topic", trimmed, driver_id, args.handler,
                             outcome)
       /\ IF outcome = "bound"
          THEN /\ Len(topics) < MaxTopics
               /\ topic_handlers' = Put(topic_handlers, trimmed, args.handler)
               /\ topic_drivers' = IF resolved # ""
                                   THEN Put(topic_drivers, trimmed, resolved)
                                   ELSE topic_drivers
               /\ topics' = Append(topics, trimmed)
          ELSE UNCHANGED <<topic_handlers, topic_drivers, topics>>
       /\ UNCHANGED <<allowed_topics, rule_handlers, optionVars, rules,
                      driver_records, runVars, dispatchVars, msgVars, semaphore,
                      cb>>

\* Worker.handle_rule
HandleRule(raw, h) ==
    LET trimmed == Trim(raw)
    IN /\ run_pc = "setup"
       /\ IF trimmed = "" \/ h = None
          THEN UNCHANGED rule_handlers
          ELSE rule_handlers' = put_rule_handler(rule_handlers, trimmed, h)
       /\ last_call' = NoCall
       /\ UNCHANGED <<topic_handlers, topic_drivers, topics, allowed_topics,
                      optionVars, rules, driver_records, runVars, dispatchVars,
                      msgVars,
                      semaphore, cb>>


\* ------------------------------------------------ run() (SpecSetup): helpers
\* RulesClient.get_rule / list_rules: the records of the rule table tbl.
RuleRecords(tbl) == {tbl[r] : r \in DOMAIN tbl}
EmitTopics(record) == {Trim(record.emit[i]) : i \in DOMAIN record.emit} \ {""}

\* validate_topics: the local sets allowed_topics and allowed_by_driver[d].
rule_topics(tbl) == UNION {EmitTopics(record) : record \in RuleRecords(tbl)}
rule_topics_by_driver(tbl, d) ==
    UNION {EmitTopics(record) :
              record \in {r \in RuleRecords(tbl) : Trim(r.driver_id) = d}}

\* The state prepare_rule_subscriptions works on: the three registries it
\* writes, and the exception that ended it (NoError: it returned).
Registries(th, td, tp, err) == [th |-> th, td |-> td, tp |-> tp, err |-> err]

\* Mutant of bind_rule: a topic that already has a handler keeps it.
bind_rule_keep_existing(st, topic_, h, driver_id) ==
    IF topic_ \in DOMAIN st.th
    THEN Registries(st.th, st.td, Append(st.tp, topic_), NoError)
    ELSE Registries(Put(st.th, topic_, h), Put(st.td, topic_, driver_id),
                    Append(st.tp, topic_), NoError)

\* prepare_rule_subscriptions lines 546-553: the rule's handler and driver
\* replace whatever the topic was bound to, and the topic joins the list.
bind_rule(st, topic_, h, driver_id) ==
    Registries(Put(st.th, topic_, h), Put(st.td, topic_, driver_id),
               Append(st.tp, topic_), NoError)

\* Mutant of no_topics: run() goes on with an empty topics list.
no_topics_unchecked(tp) == FALSE

\* run() line 229: `if not self.topics`
no_topics(tp) == tp = <<>>

\* Worker.prepare_rule_subscriptions: the loop over rule_handlers.items();
\* the bindings made before an exception stay.
RECURSIVE prepare_rule_subscriptions(_, _, _)
prepare_rule_subscriptions(tbl, rhs, st) ==
    IF rhs = <<>> THEN st
    ELSE LET rule_id == Head(rhs).id
             record == tbl[rule_id]
             topic_ == Trim(record.emit[1])
             driver_id == Trim(record.driver_id)
         IN IF rule_id \notin DOMAIN tbl
            THEN [st EXCEPT !.err = Err("rule not found: %s", rule_id, "")]
            ELSE IF record.emit = <<>>
            THEN [st EXCEPT !.err = Err("rule %s has no emit topic", rule_id, "")]
            ELSE IF topic_ = ""
            THEN [st EXCEPT !.err = Err("rule %s emit topic empty", rule_id, "")]
            ELSE IF driver_id = ""
            THEN [st EXCEPT !.err = Err("rule %s driver_id is required", rule_id, "")]
            ELSE prepare_rule_subscriptions(tbl, Tail(rhs),
                    bind_rule(st, topic_, Head(rhs).handler, driver_id))

\* validate_topics, per-driver mode: the check of one topic (lines 513-528).
validate_topic(tbl, t, td) ==
    LET bound == Trim(DictGet(td, t, ""))
        driver_id == IF bound = "" THEN Trim(default_driver_id) ELSE bound
    IN IF driver_id = ""
       THEN Err("driver id is required for topic: %s", t, "")
       ELSE IF rule_topics_by_driver(tbl, driver_id) = {}
       THEN Err("driver not configured on any rule: %s", driver_id, "")
       ELSE IF t \notin rule_topics_by_driver(tbl, driver_id)
       THEN Err("topic %s not configured for driver %s", t, driver_id)
       ELSE NoError

\* validate_topics, injected subscriber: the check of one topic (508-511).
validate_topic_any_driver(tbl, t) ==
    IF t \in rule_topics(tbl) THEN NoError ELSE Err("unknown topic: %s", t, "")

\* The loops of validate_topics over _unique(self.topics): errs[i] is what the
\* check of the i-th topic gives, and the first topic that fails raises.
first_error(errs) ==
    LET bad == {i \in DOMAIN errs : errs[i] # NoError}
    IN IF bad = {} THEN NoError
       ELSE errs[CHOOSE i \in bad : \A j \in bad : i <= j]

\* Mutant of validate_topics: every topic is checked against the union of the
\* rules' topics only, whatever driver it is bound to.
validate_topics_any_driver(tbl, tp, td) ==
    IF RuleRecords(tbl) = {} THEN Err("no rules available from api", "", "")
    ELSE IF rule_topics(tbl) = {} THEN Err("no topics available from rules", "", "")
    ELSE first_error([i \in DOMAIN unique(tp) |->
                         validate_topic_any_driver(tbl, unique(tp)[i])])

\* Worker.validate_topics
validate_topics(tbl, tp, td) ==
    IF RuleRecords(tbl) = {} THEN Err("no rules available from api", "", "")
    ELSE IF rule_topics(tbl) = {} THEN Err("no topics available from rules", "", "")
    ELSE IF subscriber # None
    THEN first_error([i \in DOMAIN unique(tp) |->
                         validate_topic_any_driver(tbl, unique(tp)[i])])
    ELSE first_error([i \in DOMAIN unique(tp) |->
                         validate_topic(tbl, unique(tp)[i], td)])

\* Worker.topics_by_driver: the topics grouped by driver, or the exception.
topics_by_driver(tp, td) ==
    IF DOMAIN td = {}
    THEN IF default_driver_id # ""
         THEN [err |-> NoError,
               groups |-> [d \in {default_driver_id} |-> Range(unique(tp))]]
         ELSE [err |-> Err("driver id is required for topics", "", ""),
               groups |-> <<>>]
    ELSE [err |-> NoError,
          groups |-> [d \in {td[t] : t \in DOMAIN td} |->
                         {t \in DOMAIN td : td[t] = d}]]

\* build_driver_subscribers with the enabled flag of the record left unread.
build_errors_enabled_unread(groups, dt) ==
    LET bad == {d \in DOMAIN groups : dt[d] = "missing"}
    IN IF bad = {} THEN {NoError}
       ELSE {Err("driver not found: %s", d, "") : d \in bad}

\* Worker.build_driver_subscribers: the exceptions it can end with under the
\* driver table dt (the dict's iteration order is not tracked: any driver
\* that cannot be built may be the first one met), NoError when none.
build_errors(groups, dt) ==
    LET bad == {d \in DOMAIN groups : dt[d] # "enabled"}
    IN IF bad = {} THEN {NoError}
       ELSE {IF dt[d] = "missing" THEN Err("driver not found: %s", d, "")
             ELSE Err("driver is disabled: %s", d, "") : d \in bad}

\* ------------------------------------------------- run() (SpecSetup): action
\* How run() goes on once the subscribers are known: notify_start, whose k-th
\* listener raises (0: none does), then one Subscriber.start per task.
run_started(k, pairs) ==
    [pc |-> IF k = 0 THEN "started" ELSE "failed",
     err |-> IF k = 0 THEN NoError ELSE Err("listener failed", "", ""),
     calls |-> notify_calls("on_start", k, "", None),
     started |-> IF k = 0 THEN pairs ELSE {}]
run_failed(err) == [pc |-> "failed", err |-> err, calls |-> <<>>, started |-> {}]

\* Worker.run after prepare_rule_subscriptions left the registries st, as far
\* as validation (lines 228-239): the exception raised, or the (subscriber,
\* topic) pairs to start.
run_checks(tbl, st) ==
    IF st.err # NoError THEN [err |-> st.err, pairs |-> {}]
    ELSE IF no_topics(st.tp)
    THEN [err |-> Err("at least one topic is required", "", ""), pairs |-> {}]
    ELSE IF subscriber # None
    THEN [err |-> IF validate THEN validate_topics(tbl, st.tp, st.td) ELSE NoError,
          pairs |-> {<<INJECTED, t>> : t \in Range(unique(st.tp))}]
    ELSE LET by_driver == topics_by_driver(st.tp, st.td)
         IN IF by_driver.err # NoError THEN [err |-> by_driver.err, pairs |-> {}]
            ELSE [err |-> IF validate THEN validate_topics(tbl, st.tp, st.td)
                          ELSE NoError,
                  pairs |-> UNION {{<<d, t>> : t \in by_driver.groups[d]} :
                                      d \in DOMAIN by_driver.groups}]

\* The exceptions build_driver_subscribers can end with under the driver
\* table dt (none with an injected subscriber, which needs no build).
BuildOutcomes(st, dt) ==
    IF subscriber # None THEN {NoError}
    ELSE build_errors(topics_by_driver(st.tp, st.td).groups, dt)

\* Worker.run, up to the start of the subscriber threads, with the control
\* plane answering from the rule table tbl and from a driver table dt (which
\* is read only when the subscribers are built, for the drivers of the groups).
Run(tbl) ==
    /\ run_pc = "setup"
    /\ rules' = tbl
    /\ LET st == prepare_rule_subscriptions(tbl, rule_handlers,
                    Registries(topic_handlers, topic_drivers, topics, NoError))
           checked == run_checks(tbl, st)
       IN /\ topic_handlers' = st.th
          /\ topic_drivers' = st.td
          /\ topics' = st.tp
          /\ IF checked.err # NoError \/ subscriber # None
             THEN /\ driver_records' = <<>>
                  /\ \E out \in (IF checked.err # NoError
                                 THEN {run_failed(checked.err)}
                                 ELSE {run_started(k, checked.pairs) :
                                          k \in 0..Len(listeners)}) :
                        /\ run_pc' = out.pc
                        /\ run_error' = out.err
                        /\ run_calls' = out.calls
                        /\ started' = out.started
             ELSE \E dt \in {f \in DriverTables :
                              DOMAIN f = DOMAIN topics_by_driver(st.tp, st.td).groups} :
                     /\ driver_records' = dt
                     /\ \E out \in {run_failed(e) :
                                       e \in BuildOutcomes(st, dt) \ {NoError}}
                                    \cup (IF NoError \in BuildOutcomes(st, dt)
                                          THEN {run_started(k, checked.pairs) :
                                                   k \in 0..Len(listeners)}
                                          ELSE {}) :
                           /\ run_pc' = out.pc
                           /\ run_error' = out.err
                           /\ run_calls' = out.calls
                           /\ started' = out.started
    /\ last_call' = NoCall
    /\ UNCHANGED <<allowed_topics, rule_handlers, optionVars, dispatchVars,
                   fanVars, msgVars, semaphore, cb>>

\* A worker after Worker.__init__, before any registration.
SetupInit ==
    /\ retry_count = 0
    /\ concurrency = clamp_concurrency(<<>>)
    /\ semaphore = concurrency
    /\ listeners = [i \in 1..MaxListeners |-> i]
    /\ client_provider = FALSE
    /\ topic_handlers = <<>>
    /\ type_handlers = <<>>
    /\ middleware = <<>>
    /\ allowed_topics = {}
    /\ topics = <<>>
    /\ topic_drivers = <<>>
    /\ rule_handlers = <<>>
    /\ default_driver_id \in {"", "D1"}
    /\ subscriber \in {None, INJECTED}
    /\ validate \in BOOLEAN
    /\ rules = <<>>
    /\ driver_records = <<>>
    /\ run_pc = "setup"
    /\ run_error = NoError
    /\ run_calls = <<>>
    /\ started = {}
    /\ last_call = NoCall
    /\ NoFanout
    /\ NoComposite
    /\ NoAux
    /\ MsgIdle
    /\ cb = [c \in Callbacks |-> CbIdle]

SetupNext ==
    \/ \E ts \in TopicLists : AddTopics(ts)
    \/ \E raw \in RawTopics, args \in HandleTopicArgs : HandleTopic(raw, args)
    \/ \E raw \in {""} \cup RuleIds :
          \E h \in {None, RuleHandlerOf(raw)} : HandleRule(raw, h)
    \/ \E tbl \in RuleTables : Run(tbl)

SpecSetup == SetupInit /\ [][SetupNext]_vars


\* ----------------------------------------------- the fan-out (SpecFanout)
\* What run() is given as ctx: nothing, a threading.Event, or a WorkerContext
\* that carries one.
RunContexts == {"none", "event", "context"}

\* Worker.resolve_context, as far as the cancellation signal goes: the root
\* context has the caller's Event, or no signal at all.
resolve_context(ctx) == IF ctx = "none" THEN "none" ELSE "clear"

\* The (subscriber, topic) tasks run() fans out to: two topics on the injected
\* subscriber, two topics sharing the subscriber of one driver, and two
\* topics on the subscribers of two drivers.
FanoutPlans ==
    { {<<INJECTED, "t1">>, <<INJECTED, "t2">>},
      {<<"D1", "t1">>, <<"D1", "t2">>},
      {<<"D1", "t1">>, <<"D2", "t2">>} }
AllTasks == UNION FanoutPlans
AllSubscribers == {INJECTED} \cup Drivers

\* A task thread before its target runs: pc is "new", then "blocked" (inside
\* Subscriber.start), then "returned" or "failed"; reentered: the delivery
\* loop went round after a timeout; inner_raised: the delivery loop met an
\* error that is no timeout.
NewTask == [pc |-> "new", reentered |-> FALSE, inner_raised |-> FALSE]

\* The exception a failed task leaves in the errors list.
TaskError(k) == Err("task failed: %s %s", k[1], k[2])

\* run() has passed its prologue (the state SpecSetup ends in with
\* run_pc = "started") and is about to call _run_tasks; the worker has one
\* listener or two.
FanoutInit ==
    /\ retry_count = 0
    /\ concurrency = clamp_concurrency(<<>>)
    /\ semaphore = concurrency
    /\ listeners \in {<<1>>, <<1, 2>>}
    /\ client_provider = FALSE
    /\ topic_handlers = [t \in Topics |-> TopicHandler]
    /\ type_handlers = <<>>
    /\ middleware = <<>>
    /\ allowed_topics = {}
    /\ topics = <<"t1", "t2">>
    /\ started \in FanoutPlans
    /\ subscriber = IF \E k \in started : k[1] = INJECTED THEN INJECTED ELSE None
    /\ topic_drivers = IF subscriber # None THEN <<>>
                       ELSE [t \in Topics |-> CHOOSE d \in Drivers : <<d, t>> \in started]
    /\ rule_handlers = <<>>
    /\ default_driver_id = ""
    /\ validate = FALSE
    /\ rules = <<>>
    /\ driver_records = IF subscriber # None THEN <<>>
                        ELSE [d \in {k[1] : k \in started} |-> "enabled"]
    /\ run_pc = "started"
    /\ run_error = NoError
    /\ run_calls = notify_calls("on_start", 0, "", None)
    /\ last_call = NoCall
    /\ run_ctx \in RunContexts
    /\ signal = resolve_context(run_ctx)
    /\ tasks = [k \in started |-> NewTask]
    /\ inner = [d \in {k[1] : k \in started} \ {INJECTED} |-> <<>>]
    /\ closed = {}
    /\ close_calls = <<>>
    /\ watcher = "none"
    /\ errors = <<>>
    /\ NoComposite
    /\ NoAux
    /\ MsgIdle
    /\ cb = [c \in Callbacks |-> CbIdle]

\* What no step of the fan-out changes.
fanFrame == <<retry_count, concurrency, listeners, client_provider,
              topic_handlers, type_handlers, middleware, allowed_topics, topics,
              topic_drivers, rule_handlers, default_driver_id, subscriber,
              validate, rules, driver_records, started, last_call, run_ctx,
              compositeVars, auxVars, msgVars, semaphore, cb>>

\* Worker._run_tasks, lines 337-347: every task thread is started, then the
\* watcher thread when the context has a signal; the caller goes on to join.
RunTasks ==
    /\ run_pc = "started"
    /\ run_pc' = "joining"
    /\ watcher' = IF signal # "none" THEN "waiting" ELSE "none"
    /\ UNCHANGED <<fanFrame, run_error, run_calls, signal, tasks, inner, closed,
                   close_calls, errors>>

\* The caller of run() sets the Event it handed over: at any time, also
\* before a thread is started.
SetSignal ==
    /\ signal = "clear"
    /\ signal' = "set"
    /\ UNCHANGED <<fanFrame, run_pc, run_error, run_calls, tasks, inner, closed,
                   close_calls, watcher, errors>>

\* _run_tasks.wrap, lines 333-335: the signal after a task's exception.
signal_after_error(sig) == IF sig = "none" THEN "none" ELSE "set"

\* _run_tasks.wrap, the except branch: the task's error is appended to the
\* errors list and the signal, when there is one, is set.
TaskFails(k) ==
    /\ tasks' = [tasks EXCEPT ![k].pc = "failed"]
    /\ errors' = Append(errors, k)
    /\ signal' = signal_after_error(signal)

\* The task thread calls Subscriber.start(topic, handler). A driver
\* subscriber (_start_amqp and its like, up to the loop) connects and stores
\* the connection in self._inner, or raises (a missing url, a failed
\* connect); the injected subscriber starts waiting, or raises.
SubscriberStart(k) ==
    /\ run_pc = "joining"
    /\ k \in DOMAIN tasks
    /\ tasks[k].pc = "new"
    /\ \/ /\ tasks' = [tasks EXCEPT ![k].pc = "blocked"]
          /\ inner' = IF k[1] \in DOMAIN inner
                       THEN [inner EXCEPT ![k[1]] = k] ELSE inner
          /\ UNCHANGED <<errors, signal>>
       \/ /\ TaskFails(k)
          /\ UNCHANGED inner
    /\ UNCHANGED <<fanFrame, run_pc, run_error, run_calls, closed, close_calls,
                   watcher>>

\* The delivery loop of a driver subscriber (lines 150-155): the inner
\* start() raised TimeoutError, and the loop goes round.
InnerTimeout(k) ==
    /\ run_pc = "joining"
    /\ k \in DOMAIN tasks
    /\ k[1] # INJECTED
    /\ tasks[k].pc = "blocked"
    /\ tasks' = [tasks EXCEPT ![k].reentered = TRUE]
    /\ UNCHANGED <<fanFrame, run_pc, run_error, run_calls, signal, inner, closed,
                   close_calls, watcher, errors>>

\* The delivery loop of a driver subscriber: the inner start() raised another
\* exception than TimeoutError; `except Exception: break` leaves the loop and
\* start() returns None.
InnerError(k) ==
    /\ run_pc = "joining"
    /\ k \in DOMAIN tasks
    /\ k[1] # INJECTED
    /\ tasks[k].pc = "blocked"
    /\ tasks' = [tasks EXCEPT ![k].pc = "returned", ![k].inner_raised = TRUE]
    /\ UNCHANGED <<fanFrame, run_pc, run_error, run_calls, signal, inner, closed,
                   close_calls, watcher, errors>>

\* The delivery loop of a driver subscriber whose connection was closed: the
\* inner start() ends (a closed connection raises on the next call at the
\* latest), the loop breaks and start() returns.
InnerClosed(k) ==
    /\ run_pc = "joining"
    /\ k \in DOMAIN tasks
    /\ k[1] # INJECTED
    /\ tasks[k].pc = "blocked"
    /\ k \in closed
    /\ tasks' = [tasks EXCEPT ![k].pc = "returned"]
    /\ UNCHANGED <<fanFrame, run_pc, run_error, run_calls, signal, inner, closed,
                   close_calls, watcher, errors>>

\* The injected subscriber keeps the Subscriber contract: once it is closed
\* its start() returns.
InjectedStartReturns(k) ==
    /\ run_pc = "joining"
    /\ k \in DOMAIN tasks
    /\ k[1] = INJECTED
    /\ tasks[k].pc = "blocked"
    /\ INJECTED \in closed
    /\ tasks' = [tasks EXCEPT ![k].pc = "returned"]
    /\ UNCHANGED <<fanFrame, run_pc, run_error, run_calls, signal, inner, closed,
                   close_calls, watcher, errors>>

\* The injected subscriber's start() raises.
InjectedStartRaises(k) ==
    /\ run_pc = "joining"
    /\ k \in DOMAIN tasks
    /\ k[1] = INJECTED
    /\ tasks[k].pc = "blocked"
    /\ TaskFails(k)
    /\ UNCHANGED <<fanFrame, run_pc, run_error, run_calls, inner, closed,
                   close_calls, watcher>>

\* Worker._wait_for_signal: signal.wait() returns once the signal is set.
WatcherWakes ==
    /\ watcher = "waiting"
    /\ signal = "set"
    /\ watcher' = "closing"
    /\ UNCHANGED <<fanFrame, run_pc, run_error, run_calls, signal, tasks, inner,
                   closed, close_calls, errors>>

\* Worker.close with the per-driver loop left alone: only an injected
\* subscriber is closed.
owned_subscribers_injected_only ==
    IF subscriber # None THEN {INJECTED} ELSE {}

\* Worker.close: the subscribers it calls close() on, the injected one or
\* every value of driver_subs (an exception of one close() is caught and the
\* loop goes on).
owned_subscribers ==
    IF subscriber # None THEN {INJECTED} ELSE DOMAIN inner

ClosedSubscribers == {close_calls[i].sub : i \in DOMAIN close_calls}

\* Worker.close, one Subscriber.close(): _RelaybusSubscriber.close closes
\* the connection self._inner holds at that moment, if any, and swallows its
\* exception; the injected subscriber's close() may raise, and ends its
\* start() calls either way.
WorkerClose(s) ==
    /\ watcher = "closing"
    /\ s \in owned_subscribers \ ClosedSubscribers
    /\ \E raised \in (IF s = INJECTED THEN BOOLEAN ELSE {FALSE}) :
          /\ closed' = IF s = INJECTED THEN closed \cup {s}
                        ELSE IF inner[s] = <<>> THEN closed
                        ELSE closed \cup {inner[s]}
          /\ close_calls' = Append(close_calls, [sub |-> s, raised |-> raised])
    /\ watcher' = IF owned_subscribers \ (ClosedSubscribers \cup {s}) = {}
                  THEN "done" ELSE "closing"
    /\ UNCHANGED <<fanFrame, run_pc, run_error, run_calls, signal, tasks, inner,
                   errors>>

\* _run_tasks, lines 349-352: every thread is joined, then the first error
\* of the list is raised.
JoinThreads ==
    /\ run_pc = "joining"
    /\ \A k \in DOMAIN tasks : tasks[k].pc \in {"returned", "failed"}
    /\ run_pc' = "exiting"
    /\ run_error' = IF errors = <<>> THEN NoError ELSE TaskError(errors[1])
    /\ UNCHANGED <<fanFrame, run_calls, signal, tasks, inner, closed,
                   close_calls, watcher, errors>>

\* run_with_subscriber / run_driver_subscribers, the finally clause:
\* notify_exit, whose kk-th listener raises (0: none does); an exception of
\* a listener replaces the one on its way out of run().
NotifyExit ==
    /\ run_pc = "exiting"
    /\ \E kk \in 0..Len(listeners) :
          /\ run_calls' = run_calls \o notify_calls("on_exit", kk, "", None)
          /\ run_error' = IF kk > 0 THEN Err("listener failed", "", "")
                           ELSE run_error
    /\ run_pc' = IF run_error' = NoError THEN "returned" ELSE "failed"
    /\ UNCHANGED <<fanFrame, signal, tasks, inner, closed, close_calls, watcher,
                   errors>>

FanoutNext ==
    \/ RunTasks
    \/ SetSignal
    \/ \E k \in AllTasks : SubscriberStart(k)
    \/ \E k \in AllTasks : InnerTimeout(k)
    \/ \E k \in AllTasks : InnerError(k)
    \/ \E k \in AllTasks : InnerClosed(k)
    \/ \E k \in AllTasks : InjectedStartReturns(k)
    \/ \E k \in AllTasks : InjectedStartRaises(k)
    \/ WatcherWakes
    \/ \E s \in AllSubscribers : WorkerClose(s)
    \/ JoinThreads
    \/ NotifyExit

SpecFanout == FanoutInit /\ [][FanoutNext]_vars

\* Every thread that can take a step of its own code takes it: the caller of
\* run(), the task threads and the watcher are scheduled by the interpreter.
\* What the outside does is left free: the caller setting the signal, a
\* broker timing out or failing, a subscriber raising.
FanoutFairness ==
    /\ WF_vars(RunTasks)
    /\ WF_vars(WatcherWakes)
    /\ WF_vars(\E s \in AllSubscribers : WorkerClose(s))
    /\ WF_vars(JoinThreads)
    /\ WF_vars(NotifyExit)
    /\ \A k \in AllTasks :
          /\ WF_vars(SubscriberStart(k))
          /\ WF_vars(InnerClosed(k))
          /\ WF_vars(InjectedStartReturns(k))

SpecFanoutFair == SpecFanout /\ FanoutFairness


\* ------------------------------------ the composite subscriber (SpecComposite)
\* _MultiSubscriber.subs: the driver subscribers of a configuration that
\* names two drivers (build_subscriber).
subs == <<"amqp", "nats">>

\* A start() call before its first statement: pc is "new", "spawning" (the
\* loop over self.subs, i children launched so far), "joining" (the loop
\* over the list `joined`, j threads joined so far), "returned".
NewStart == [pc |-> "new", i |-> 0, joined |-> None, j |-> 0]

\* A worker made by new_from_config with a composite subscriber, run() past
\* its start of the task threads: each task is about to call start(topic, .)
\* on the one composite subscriber.
CompositeInit ==
    /\ retry_count = 0
    /\ concurrency = clamp_concurrency(<<>>)
    /\ semaphore = concurrency
    /\ listeners = <<>>
    /\ client_provider = FALSE
    /\ topic_handlers = [t \in Topics |-> TopicHandler]
    /\ type_handlers = <<>>
    /\ middleware = <<>>
    /\ Delivering
    /\ NoFanout
    /\ threads = None
    /\ thread_lists = <<>>
    /\ starts = [t \in {k[2] : k \in started} |-> NewStart]
    /\ child_starts = <<>>
    /\ NoAux
    /\ MsgIdle
    /\ cb = [c \in Callbacks |-> CbIdle]

\* What no step of the composite subscriber changes.
compositeFrame == <<dispatchVars, topic_handlers, allowed_topics, topics,
                    topic_drivers, rule_handlers, rules, driver_records,
                    optionVars, run_pc, run_error, run_calls, started,
                    last_call, run_ctx, signal, tasks, inner, closed,
                    close_calls, watcher, errors, auxVars, msgVars, semaphore,
                    cb>>

\* _MultiSubscriber.start, line 229: `self.threads = []` makes a new list
\* object and points the shared attribute at it.
ResetThreads(t) ==
    /\ starts[t].pc = "new"
    /\ threads' = t
    /\ thread_lists' = Put(thread_lists, t, <<>>)
    /\ starts' = [starts EXCEPT ![t].pc = "spawning"]
    /\ UNCHANGED <<compositeFrame, child_starts>>

\* _MultiSubscriber.start, lines 230-233: the next child thread is started
\* and appended to the list self.threads refers to at that moment.
SpawnChild(t) ==
    /\ starts[t].pc = "spawning"
    /\ starts[t].i < Len(subs)
    /\ child_starts' = Put(child_starts, <<t, starts[t].i + 1>>, "running")
    /\ thread_lists' = [thread_lists EXCEPT
                           ![threads] = Append(@, <<t, starts[t].i + 1>>)]
    /\ starts' = [starts EXCEPT ![t].i = @ + 1]
    /\ UNCHANGED <<compositeFrame, threads>>

\* _MultiSubscriber.start, line 235: `for t in self.threads` takes an
\* iterator over the list self.threads refers to at that moment.
BeginJoin(t) ==
    /\ starts[t].pc = "spawning"
    /\ starts[t].i = Len(subs)
    /\ starts' = [starts EXCEPT ![t].pc = "joining", ![t].joined = threads]
    /\ UNCHANGED <<compositeFrame, threads, thread_lists, child_starts>>

\* _MultiSubscriber.start, lines 235-236: the iterator gives the next thread
\* of its list, if the list has one by now, and join() waits for it; else the
\* loop ends and start() returns.
JoinNext(t) ==
    /\ starts[t].pc = "joining"
    /\ LET list == thread_lists[starts[t].joined]
       IN IF starts[t].j < Len(list)
          THEN /\ child_starts[list[starts[t].j + 1]] = "returned"
               /\ starts' = [starts EXCEPT ![t].j = @ + 1]
          ELSE starts' = [starts EXCEPT ![t].pc = "returned"]
    /\ UNCHANGED <<compositeFrame, threads, thread_lists, child_starts>>

\* The start() of a child subscriber returns (its delivery loop ended).
ChildReturns(c) ==
    /\ c \in DOMAIN child_starts
    /\ child_starts[c] = "running"
    /\ child_starts' = [child_starts EXCEPT ![c] = "returned"]
    /\ UNCHANGED <<compositeFrame, threads, thread_lists, starts>>

CompositeNext ==
    \/ \E t \in Topics : ResetThreads(t)
    \/ \E t \in Topics : SpawnChild(t)
    \/ \E t \in Topics : BeginJoin(t)
    \/ \E t \in Topics : JoinNext(t)
    \/ \E t \in Topics, i \in DOMAIN subs : ChildReturns(<<t, i>>)

SpecComposite == CompositeInit /\ [][CompositeNext]_vars


\* ---------------------------------------- the helpers, one call at a time
\* What no helper specification changes but `input` and `output`.
helperFrame == <<dispatchVars, topic_handlers, allowed_topics, topics,
                 topic_drivers, rule_handlers, rules, driver_records,
                 optionVars, run_pc, run_error, run_calls, started, last_call,
                 run_ctx, signal, tasks, inner, closed, close_calls, watcher,
                 errors, compositeVars, now, token_cache, token_calls, scmVars,
                 msgVars, semaphore, cb>>

\* The worker the helper specifications start from: the one of SpecDelivery,
\* idle.
HelperWorker ==
    /\ retry_count = 0
    /\ concurrency = clamp_concurrency(<<>>)
    /\ semaphore = concurrency
    /\ listeners = <<>>
    /\ client_provider = FALSE
    /\ topic_handlers = [t \in {"t1"} |-> "h_topic"]
    /\ type_handlers = <<>>
    /\ middleware = <<>>
    /\ Delivering
    /\ NoFanout
    /\ NoComposite
    /\ MsgIdle
    /\ cb = [c \in Callbacks |-> CbIdle]

\* ------------------------------ normalize_retry_decision (SpecRetryDecision)
\* The values handed to normalize_retry_decision: what a policy's OnError
\* may return, the dicts holding any Python values.
DecisionValues ==
    {[kind |-> "RetryDecision", val |-> d] : d \in BoolPairs}
    \cup {[kind |-> "dict", val |-> d] : d \in DecisionDicts(PyValues)}
    \cup {[kind |-> k, val |-> <<>>] : k \in {"None", "str", "tuple"}}

RetryDecisionInit ==
    /\ HelperWorker
    /\ input \in DecisionValues
    /\ output = <<>>
    /\ now = 0
    /\ token_cache = EmptyTokenCache
    /\ token_calls = <<>>
    /\ NoCache

\* _call_retry_policy: normalize_retry_decision(policy.OnError(ctx, evt, err))
NormalizeRetryDecision ==
    /\ output = <<>>
    /\ output' = <<normalize_retry_decision(input)>>
    /\ UNCHANGED <<helperFrame, input>>

SpecRetryDecision == RetryDecisionInit /\ [][NormalizeRetryDecision]_vars


\* ------------------------------------------- DefaultCodec.decode (SpecCodec)
\* The topic argument of decode, and RelaybusMessage.topic.
TopicArguments == {None, "", " ", "t1", " t1 "}
MessageTopics == {"", "t2", " t2 "}

\* What the two parsers make of RelaybusMessage.payload: None (no payload),
\* an EventPayload envelope, a legacy JSON object, or bytes that are neither;
\* envelope and JSON object carry a provider and a name, either may be empty.
Payloads ==
    {[form |-> "none", provider |-> "", name |-> ""],
     [form |-> "opaque", provider |-> "", name |-> ""]}
    \cup [form : {"envelope", "legacy"}, provider : {"", "github"},
          name : {"", "push"}]

\* RelaybusMessage.metadata: each of the keys present or absent.
CodecMetadatas ==
    {[k \in K |-> CASE k = METADATA_KEY_PROVIDER -> "gitlab"
                    [] k = METADATA_KEY_EVENT -> "ping"
                    [] OTHER -> "L1"] :
        K \in SUBSET {METADATA_KEY_PROVIDER, METADATA_KEY_EVENT, METADATA_KEY_LOG_ID}}

\* Mutant of resolve_topic: the message's own topic comes first.
resolve_topic_message_first(t, m) ==
    IF m.topic # "" THEN m.topic
    ELSE Trim(IF t = None THEN "" ELSE t)

\* _resolve_topic: (topic or "").strip() when that is not empty, else
\* str(msg.topic or "").
resolve_topic(t, m) ==
    LET trimmed == Trim(IF t = None THEN "" ELSE t)
    IN IF trimmed # "" THEN trimmed ELSE m.topic

\* DefaultCodec.decode: ValueError without a payload; else provider and
\* event name as the envelope or the legacy object give them, an empty one
\* taken from the metadata, and the Event built from them.
decode(t, m) ==
    IF m.payload.form = "none"
    THEN [ok |-> FALSE, error |-> "message payload is required"]
    ELSE LET metadata == m.metadata
             provider == IF m.payload.provider # "" THEN m.payload.provider
                         ELSE DictGet(metadata, METADATA_KEY_PROVIDER, "")
             event_name == IF m.payload.name # "" THEN m.payload.name
                           ELSE DictGet(metadata, METADATA_KEY_EVENT, "")
         IN [ok |-> TRUE, provider |-> provider, type |-> event_name,
             topic |-> resolve_topic(t, m), metadata |-> metadata,
             log_id |-> DictGet(metadata, METADATA_KEY_LOG_ID, "")]

CodecInit ==
    /\ HelperWorker
    /\ input \in [topic : TopicArguments,
                   msg : [topic : MessageTopics, payload : Payloads,
                          metadata : CodecMetadatas]]
    /\ output = <<>>
    /\ now = 0
    /\ token_cache = EmptyTokenCache
    /\ token_calls = <<>>
    /\ NoCache

\* handle_message line 405: self.codec.decode(topic, msg)
CodecDecode ==
    /\ output = <<>>
    /\ output' = <<decode(input.topic, input.msg)>>
    /\ UNCHANGED <<helperFrame, input>>

SpecCodec == CodecInit /\ [][CodecDecode]_vars


\* ------------------------------------- the OAuth2 token cache (SpecOAuth)
\* The threads that ask for a token, and the configurations they ask with:
\* two that differ in their audience, and a disabled one.
TokenCallers == {"a", "b"}
OAuth2Configs ==
    [enabled : {TRUE}, token_url : {"idp"}, client_id : {"c1"},
     client_secret : {"s1"}, scopes : {"read"}, audience : {"", "api"}]
    \cup [enabled : {FALSE}, token_url : {"idp"}, client_id : {"c1"},
          client_secret : {"s1"}, scopes : {"read"}, audience : {""}]

\* _build_cache_key: token_url|client_id|scopes|audience
build_cache_key(cfg) == <<cfg.token_url, cfg.client_id, cfg.scopes, cfg.audience>>

\* The seconds the clock advances by in one step, and the margin of line 65.
TickSeconds == 10
RefreshMargin == 30
\* The expires_in values of the token endpoint's answers.
ExpiresIn == {20, 50}

\* A thread outside oauth2_token_from_config.
IdleTokenCall ==
    [pc |-> "idle", key |-> <<>>, now |-> 0, fetched |-> NoToken,
     expires_in |-> 0, served |-> NoToken, from_cache |-> FALSE]

OAuthInit ==
    /\ HelperWorker
    /\ input = None
    /\ output = <<>>
    /\ now = 0
    /\ token_cache = EmptyTokenCache
    /\ token_calls = [c \in TokenCallers |-> IdleTokenCall]
    /\ NoCache

\* What no step of a token call changes.
oauthFrame == <<dispatchVars, topic_handlers, allowed_topics, topics,
                topic_drivers, rule_handlers, rules, driver_records,
                optionVars, run_pc, run_error, run_calls, started, last_call,
                run_ctx, signal, tasks, inner, closed, close_calls, watcher,
                errors, compositeVars, input, output, scmVars, msgVars,
                semaphore, cb>>

\* oauth2_token_from_config, lines 56-64: "" for a disabled or incomplete
\* configuration; else the cache key is built and the time is read.
TokenCall(c, cfg) ==
    /\ token_calls[c].pc \in {"idle", "returned"}
    /\ token_calls' = [token_calls EXCEPT ![c] =
          IF ~cfg.enabled \/ cfg.token_url = "" \/ cfg.client_id = ""
             \/ cfg.client_secret = ""
          THEN [IdleTokenCall EXCEPT !.pc = "returned"]
          ELSE [IdleTokenCall EXCEPT !.pc = "check_token",
                                     !.key = build_cache_key(cfg),
                                     !.now = now]]
    /\ UNCHANGED <<oauthFrame, now, token_cache>>

\* Line 65, first operand: `_token_cache.token`
CheckToken(c) ==
    /\ token_calls[c].pc = "check_token"
    /\ token_calls' = [token_calls EXCEPT ![c].pc =
          IF token_cache.token # NoToken THEN "check_key" ELSE "request"]
    /\ UNCHANGED <<oauthFrame, now, token_cache>>

\* Line 65, second operand: `_token_cache.key == cache_key`
CheckKey(c) ==
    /\ token_calls[c].pc = "check_key"
    /\ token_calls' = [token_calls EXCEPT ![c].pc =
          IF token_cache.key = token_calls[c].key THEN "check_expiry"
          ELSE "request"]
    /\ UNCHANGED <<oauthFrame, now, token_cache>>

\* Line 65, third operand: `_token_cache.expires_at > now + 30`
still_fresh(expires_at, t) == expires_at > t + RefreshMargin

CheckExpiry(c) ==
    /\ token_calls[c].pc = "check_expiry"
    /\ token_calls' = [token_calls EXCEPT ![c].pc =
          IF still_fresh(token_cache.expires_at, token_calls[c].now)
          THEN "serve" ELSE "request"]
    /\ UNCHANGED <<oauthFrame, now, token_cache>>

\* Line 66: `return _token_cache.token`
ServeCached(c) ==
    /\ token_calls[c].pc = "serve"
    /\ token_calls' = [token_calls EXCEPT ![c].pc = "returned",
                                          ![c].served = token_cache.token,
                                          ![c].from_cache = TRUE]
    /\ UNCHANGED <<oauthFrame, now, token_cache>>

\* Lines 68-86: the token endpoint is asked; it answers with a token for the
\* caller's configuration and its expires_in, or with no token ("" is
\* returned and nothing cached), or the request raises.
RequestToken(c) ==
    /\ token_calls[c].pc = "request"
    /\ \/ \E e \in ExpiresIn :
            token_calls' = [token_calls EXCEPT
                ![c].pc = "write_token",
                ![c].fetched = [key |-> token_calls[c].key, expires_at |-> now + e],
                ![c].expires_in = e]
       \/ token_calls' = [token_calls EXCEPT ![c] =
                             [IdleTokenCall EXCEPT !.pc = "returned"]]
    /\ UNCHANGED <<oauthFrame, now, token_cache>>

\* Line 87: `_token_cache.token = token`
WriteToken(c) ==
    /\ token_calls[c].pc = "write_token"
    /\ token_cache' = [token_cache EXCEPT !.token = token_calls[c].fetched]
    /\ token_calls' = [token_calls EXCEPT ![c].pc = "write_key"]
    /\ UNCHANGED <<oauthFrame, now>>

\* Line 88: `_token_cache.key = cache_key`
WriteKey(c) ==
    /\ token_calls[c].pc = "write_key"
    /\ token_cache' = [token_cache EXCEPT !.key = token_calls[c].key]
    /\ token_calls' = [token_calls EXCEPT ![c].pc = "write_expiry"]
    /\ UNCHANGED <<oauthFrame, now>>

\* Lines 89-90: `_token_cache.expires_at = now + expires_in; return token`
WriteExpiry(c) ==
    /\ token_calls[c].pc = "write_expiry"
    /\ token_cache' = [token_cache EXCEPT
                          !.expires_at = token_calls[c].now + token_calls[c].expires_in]
    /\ token_calls' = [token_calls EXCEPT ![c] =
          [IdleTokenCall EXCEPT !.pc = "returned", !.key = token_calls[c].key,
                                !.now = token_calls[c].now,
                                !.served = token_calls[c].fetched]]
    /\ UNCHANGED <<oauthFrame, now>>

\* Time passes.
Tick ==
    /\ now < MaxClock
    /\ now' = now + TickSeconds
    /\ UNCHANGED <<oauthFrame, token_cache, token_calls>>

OAuthNext ==
    \/ \E c \in TokenCallers, cfg \in OAuth2Configs : TokenCall(c, cfg)
    \/ \E c \in TokenCallers : CheckToken(c)
    \/ \E c \in TokenCallers : CheckKey(c)
    \/ \E c \in TokenCallers : CheckExpiry(c)
    \/ \E c \in TokenCallers : ServeCached(c)
    \/ \E c \in TokenCallers : RequestToken(c)
    \/ \E c \in TokenCallers : WriteToken(c)
    \/ \E c \in TokenCallers : WriteKey(c)
    \/ \E c \in TokenCallers : WriteExpiry(c)
    \/ Tick

SpecOAuth == OAuthInit /\ [][OAuthNext]_vars


\* --------------------------------------- New(options..) and apply (SpecOptions)
\* WorkerOptions: every field is optional, <<>> standing for None and <<v>>
\* for the value v.
NoOptions ==
    [subscriber |-> <<>>, topics |-> <<>>, concurrency |-> <<>>,
     middleware |-> <<>>, retry_count |-> <<>>, listeners |-> <<>>]
WithSubscriber(s) == [NoOptions EXCEPT !.subscriber = <<s>>]
WithTopics(ts) == [NoOptions EXCEPT !.topics = <<ts>>]
WithConcurrency(n) == [NoOptions EXCEPT !.concurrency = <<n>>]
WithMiddleware(ms) == [NoOptions EXCEPT !.middleware = <<ms>>]
WithRetryCount(n) == [NoOptions EXCEPT !.retry_count = <<n>>]
WithListener(l) == [NoOptions EXCEPT !.listeners = <<<<l>>>>]

\* The options an application hands to New().
WorkerOptionValues ==
    {WithListener(l) : l \in 1..MaxListeners}
      \cup {WithMiddleware(<<"M1">>), WithMiddleware(<<"M2", "M1">>)}
      \cup {WithRetryCount(1), WithConcurrency(2), WithSubscriber(INJECTED),
            WithTopics(<<"t1">>)}

\* Mutant of set_listeners: the listeners of the option are appended to the
\* configured ones.
set_listeners_append(current, option) ==
    IF option = <<>> THEN current ELSE current \o option[1]

\* apply, lines 130-131: self.listeners = list(options.listeners)
set_listeners(current, option) ==
    IF option = <<>> THEN current ELSE option[1]

\* apply, lines 124-125: self.middleware = list(options.middleware)
set_middleware(current, option) ==
    IF option = <<>> THEN current ELSE option[1]

\* Worker.new: cls(), a worker with the defaults of Worker.__init__, before
\* the first option is applied; `input` holds the options applied so far.
OptionsInit ==
    /\ retry_count = normalize_retry_count(<<>>)
    /\ concurrency = clamp_concurrency(<<>>)
    /\ semaphore = concurrency
    /\ listeners = <<>>
    /\ client_provider = FALSE
    /\ topic_handlers = <<>>
    /\ type_handlers = <<>>
    /\ middleware = <<>>
    /\ allowed_topics = {}
    /\ topics = <<>>
    /\ topic_drivers = <<>>
    /\ rule_handlers = <<>>
    /\ default_driver_id = ""
    /\ subscriber = None
    /\ validate = TRUE
    /\ rules = <<>>
    /\ driver_records = <<>>
    /\ run_pc = "setup"
    /\ run_error = NoError
    /\ run_calls = <<>>
    /\ started = {}
    /\ last_call = NoCall
    /\ NoFanout
    /\ NoComposite
    /\ input = <<>>
    /\ output = <<>>
    /\ now = 0
    /\ token_cache = EmptyTokenCache
    /\ token_calls = <<>>
    /\ NoCache
    /\ MsgIdle
    /\ cb = [c \in Callbacks |-> CbIdle]

\* opt(wk) of Worker.new, that is Worker.apply(options): each field that is
\* not None is stored, the lists as copies that replace the old lists, the
\* topics through add_topics.
Apply(options) ==
    LET given == IF options.topics = <<>> THEN <<>> ELSE options.topics[1]
        kept == SelectSeq([i \in DOMAIN given |-> Trim(given[i])],
                          LAMBDA t : t # "")
    IN /\ run_pc = "setup"
       /\ Len(input) < MaxOptions
       /\ Len(topics) + Len(kept) <= MaxTopics
       /\ input' = Append(input, options)
       /\ subscriber' = IF options.subscriber = <<>> THEN subscriber
                        ELSE options.subscriber[1]
       /\ concurrency' = IF options.concurrency = <<>> THEN concurrency
                         ELSE clamp_concurrency(options.concurrency)
       /\ semaphore' = IF options.concurrency = <<>> THEN semaphore
                       ELSE concurrency'
       /\ middleware' = set_middleware(middleware, options.middleware)
       /\ retry_count' = IF options.retry_count = <<>> THEN retry_count
                         ELSE normalize_retry_count(options.retry_count)
       /\ listeners' = set_listeners(listeners, options.listeners)
       /\ topics' = topics \o kept
       /\ allowed_topics' = allowed_topics \cup Range(kept)
       /\ UNCHANGED <<client_provider, topic_handlers, type_handlers,
                      topic_drivers, rule_handlers, default_driver_id,
                      validate, rules, driver_records, run_pc, run_error,
                      run_calls, started, last_call, run_ctx, signal, tasks,
                      inner, closed, close_calls, watcher, errors,
                      compositeVars, output, now, token_cache, token_calls,
                      scmVars, msgVars, cb>>

\* New(options..) option by option, then run(), whose notify_start shows
\* which listeners the worker holds.
OptionsNext ==
    \/ \E options \in WorkerOptionValues : Apply(options)
    \/ \E tbl \in RuleTables : Run(tbl)

SpecOptions == OptionsInit /\ [][OptionsNext]_vars


\* ------------------------------------- the SCM client cache (SpecSCMCache)
\* cache_size of RemoteSCMClientProviderOptions as the application sets it;
\* _SCMClientCache.__init__: self.size = max(1, size).
size == Max(1, CacheSize)

\* The cache keys: one more than the cache holds, and the empty key.
CacheKey(i) ==
    CASE i = 1 -> "k1"
      [] i = 2 -> "k2"
      [] i = 3 -> "k3"
      [] i = 4 -> "k4"
      [] OTHER -> "k5"
CacheKeys == {CacheKey(i) : i \in 1..(size + 1)}
\* The client of an add: an SCM client, or None.
SCMClient == "scm_client"
\* expires_at of an add: None (<<>>), or a time in seconds.
Expiries == {<<>>, <<40>>}
\* The threads that call the cache (the delivery callbacks of the worker).
CacheThreads == {"a", "b"}

\* A thread outside get and add; op and returned tell of its last call.
CacheIdle ==
    [pc |-> "idle", op |-> "", key |-> "", entry |-> <<>>, at |-> 0,
     old_key |-> <<>>, evicted |-> <<>>, returned |-> <<>>]
\* _SCMCacheEntry
CacheEntry(client, expires_at) == [client |-> client, expires_at |-> expires_at]

\* _expired(expires_at, skew_seconds) at the time `now`.
expired(expires_at, skew_seconds) ==
    IF expires_at = <<>> THEN FALSE
    ELSE now >= expires_at[1] - Max(0, skew_seconds)

\* Mutant of can_lock: the body is entered whoever holds the lock.
can_lock_unlocked(l) == TRUE

\* `with self.lock`: the body is entered when no thread holds the lock.
can_lock(l) == l = None

\* Mutant of pop_index: the head of the list is popped.
pop_index_head(list) == 1

\* list.pop() takes the last element.
pop_index(list) == Len(list)

\* list.remove(key) where `key in list` held: the first occurrence goes.
remove(list, key) ==
    IF key \notin Range(list) THEN list
    ELSE LET i == CHOOSE i \in DOMAIN list :
                     list[i] = key /\ \A j \in 1..(i - 1) : list[j] # key
         IN SubSeq(list, 1, i - 1) \o SubSeq(list, i + 1, Len(list))

\* dict.pop(key, None)
pop(dict, key) == [k \in DOMAIN dict \ {key} |-> dict[k]]

\* The history of uses after key was used: key is the latest.
used(key) == <<key>> \o remove(uses, key)

\* A cache the provider has just made, the clock at 0, no call made.
SCMCacheInit ==
    /\ retry_count = 0
    /\ concurrency = clamp_concurrency(<<>>)
    /\ semaphore = concurrency
    /\ listeners = <<>>
    /\ client_provider = TRUE
    /\ topic_handlers = [t \in {"t1"} |-> "h_topic"]
    /\ type_handlers = <<>>
    /\ middleware = <<>>
    /\ Delivering
    /\ NoFanout
    /\ NoComposite
    /\ input = None
    /\ output = <<>>
    /\ now = 0
    /\ token_cache = EmptyTokenCache
    /\ token_calls = <<>>
    /\ items = <<>>
    /\ order = <<>>
    /\ lock = None
    /\ cache_calls = [t \in CacheThreads |-> CacheIdle]
    /\ uses = <<>>
    /\ MsgIdle
    /\ cb = [c \in Callbacks |-> CbIdle]

scmFrame == <<dispatchVars, topic_handlers, allowed_topics, topics,
              topic_drivers, rule_handlers, rules, driver_records,
              optionVars, run_pc, run_error, run_calls, started, last_call,
              run_ctx, signal, tasks, inner, closed, close_calls, watcher,
              errors, compositeVars, input, output, token_cache, token_calls,
              msgVars, semaphore, cb>>

\* The call of thread t leaves the `with` block and returns value: the lock
\* is released; a call that served or stored its key has used it.
CacheReturn(t, value, is_use) ==
    /\ lock' = None
    /\ cache_calls' = [cache_calls EXCEPT ![t] =
          [CacheIdle EXCEPT !.op = cache_calls[t].op,
                            !.returned = <<value>>]]
    /\ uses' = IF is_use THEN used(cache_calls[t].key) ELSE uses

\* get(key, skew_seconds), lines 117-119: an empty key returns None at once;
\* otherwise the thread enters the `with self.lock` block (a thread that
\* waits for the lock has done nothing yet).
Get(t, key) ==
    /\ cache_calls[t].pc = "idle"
    /\ IF key = ""
       THEN /\ cache_calls' = [cache_calls EXCEPT ![t] =
                  [CacheIdle EXCEPT !.op = "get", !.returned = <<None>>]]
            /\ UNCHANGED lock
       ELSE /\ can_lock(lock)
            /\ lock' = t
            /\ cache_calls' = [cache_calls EXCEPT ![t] =
                  [CacheIdle EXCEPT !.pc = "get_entry", !.op = "get",
                                    !.key = key]]
    /\ UNCHANGED <<now, items, order, uses, scmFrame>>

\* get, lines 120-126: the entry is looked up; no entry returns None, an
\* expired one goes on to _delete, any other to _bump.
GetEntry(t) ==
    LET key == cache_calls[t].key IN
    /\ cache_calls[t].pc = "get_entry"
    /\ IF key \notin DOMAIN items
       THEN CacheReturn(t, None, FALSE)
       ELSE /\ cache_calls' = [cache_calls EXCEPT
                  ![t].entry = <<items[key]>>,
                  ![t].at = now,
                  ![t].pc = IF expired(items[key].expires_at,
                                       DEFAULT_SCM_CACHE_SKEW_SECONDS)
                            THEN "delete_pop" ELSE "bump_remove"]
            /\ UNCHANGED <<lock, uses>>
    /\ UNCHANGED <<now, items, order, scmFrame>>

\* _delete, line 149: self.items.pop(key, None)
DeletePop(t) ==
    /\ cache_calls[t].pc = "delete_pop"
    /\ items' = pop(items, cache_calls[t].key)
    /\ cache_calls' = [cache_calls EXCEPT ![t].pc = "delete_remove"]
    /\ UNCHANGED <<now, order, lock, uses, scmFrame>>

\* _delete, lines 150-151, and get's `return None` (line 125).
DeleteRemove(t) ==
    /\ cache_calls[t].pc = "delete_remove"
    /\ order' = remove(order, cache_calls[t].key)
    /\ CacheReturn(t, None, FALSE)
    /\ UNCHANGED <<now, items, scmFrame>>

\* _bump, lines 144-145
BumpRemove(t) ==
    /\ cache_calls[t].pc = "bump_remove"
    /\ order' = remove(order, cache_calls[t].key)
    /\ cache_calls' = [cache_calls EXCEPT ![t].pc = "bump_insert"]
    /\ UNCHANGED <<now, items, lock, uses, scmFrame>>

\* _bump, line 146, and the return of its caller: get returns entry.client
\* (line 127), add returns (line 136).
BumpInsert(t) ==
    /\ cache_calls[t].pc = "bump_insert"
    /\ order' = <<cache_calls[t].key>> \o order
    /\ CacheReturn(t, IF cache_calls[t].op = "get"
                      THEN cache_calls[t].entry[1].client ELSE None, TRUE)
    /\ UNCHANGED <<now, items, scmFrame>>

\* add(key, client, expires_at), lines 130-132: an empty key or no client
\* returns at once; otherwise the thread enters the `with self.lock` block.
Add(t, key, client, expires_at) ==
    /\ cache_calls[t].pc = "idle"
    /\ IF key = "" \/ client = None
       THEN /\ cache_calls' = [cache_calls EXCEPT ![t] =
                  [CacheIdle EXCEPT !.op = "add", !.returned = <<None>>]]
            /\ UNCHANGED lock
       ELSE /\ can_lock(lock)
            /\ lock' = t
            /\ cache_calls' = [cache_calls EXCEPT ![t] =
                  [CacheIdle EXCEPT !.pc = "add_store", !.op = "add",
                                    !.key = key,
                                    !.entry = <<CacheEntry(client, expires_at)>>]]
    /\ UNCHANGED <<now, items, order, uses, scmFrame>>

\* add, lines 133-134 and 137: the entry is stored under the key; a key that
\* was there goes on to _bump, a new one to the insertion.
AddStore(t) ==
    LET key == cache_calls[t].key IN
    /\ cache_calls[t].pc = "add_store"
    /\ items' = Put(items, key, cache_calls[t].entry[1])
    /\ cache_calls' = [cache_calls EXCEPT
          ![t].pc = IF key \in DOMAIN items THEN "bump_remove" ELSE "add_insert"]
    /\ UNCHANGED <<now, order, lock, uses, scmFrame>>

\* add, line 138: self.order.insert(0, key)
AddInsert(t) ==
    /\ cache_calls[t].pc = "add_insert"
    /\ order' = <<cache_calls[t].key>> \o order
    /\ cache_calls' = [cache_calls EXCEPT ![t].pc = "add_trim"]
    /\ UNCHANGED <<now, items, lock, uses, scmFrame>>

\* add, lines 139-140: the test of the while loop; old_key = self.order.pop()
\* when the list is longer than size, the end of add when it is not.
AddTrim(t) ==
    /\ cache_calls[t].pc = "add_trim"
    /\ IF Len(order) > size
       THEN /\ order' = [i \in 1..(Len(order) - 1) |->
                            IF i < pop_index(order) THEN order[i]
                            ELSE order[i + 1]]
            /\ cache_calls' = [cache_calls EXCEPT
                  ![t].old_key = <<order[pop_index(order)]>>,
                  ![t].pc = "add_evict"]
            /\ UNCHANGED <<lock, uses>>
       ELSE /\ CacheReturn(t, None, TRUE)
            /\ UNCHANGED order
    /\ UNCHANGED <<now, items, scmFrame>>

\* add, line 141: self.items.pop(old_key, None), and back to the loop test.
AddEvict(t) ==
    /\ cache_calls[t].pc = "add_evict"
    /\ items' = pop(items, cache_calls[t].old_key[1])
    /\ cache_calls' = [cache_calls EXCEPT
          ![t].evicted = Append(cache_calls[t].evicted, cache_calls[t].old_key[1]),
          ![t].pc = "add_trim"]
    /\ UNCHANGED <<now, order, lock, uses, scmFrame>>

\* Time passes.
CacheTick ==
    /\ now + TickSeconds <= MaxClock
    /\ now' = now + TickSeconds
    /\ UNCHANGED <<items, order, lock, cache_calls, uses, scmFrame>>

SCMCacheNext ==
    \/ \E t \in CacheThreads, key \in CacheKeys \cup {""} : Get(t, key)
    \/ \E t \in CacheThreads : GetEntry(t)
    \/ \E t \in CacheThreads : DeletePop(t)
    \/ \E t \in CacheThreads : DeleteRemove(t)
    \/ \E t \in CacheThreads : BumpRemove(t)
    \/ \E t \in CacheThreads : BumpInsert(t)
    \/ \E t \in CacheThreads, key \in CacheKeys \cup {""},
          client \in {SCMClient, None}, expires_at \in Expiries :
          Add(t, key, client, expires_at)
    \/ \E t \in CacheThreads : AddStore(t)
    \/ \E t \in CacheThreads : AddInsert(t)
    \/ \E t \in CacheThreads : AddTrim(t)
    \/ \E t \in CacheThreads : AddEvict(t)
    \/ CacheTick

SpecSCMCache == SCMCacheInit /\ [][SCMCacheNext]_vars


\* ------------------------------------------------- reading the trace (Spec)
Calls(op) == SelectSeq(trace, LAMBDA e : e.op = op)
CallsTo(op, l) == SelectSeq(trace, LAMBDA e : e.op = op /\ e.listener = l)
HandlerCalls == Calls("handler")
StatusUpdates == Calls("update_status")
PolicyCalls == Calls("retry_policy")
ListenerIds == {listeners[i] : i \in DOMAIN listeners}
Positions(op, l) == {i \in DOMAIN trace : trace[i].op = op /\ trace[i].listener = l}

\* handle_message has ended, by a return or by an exception.
HmDone == pc \in {"hm_returned", "hm_raised", "cb_returned", "cb_raised"}
HmReturned == pc \in {"hm_returned", "cb_returned"}

DecodeFailed == \E i \in DOMAIN trace : trace[i].op = "decode" /\ trace[i].raised
ClientFailed == \E i \in DOMAIN trace : trace[i].op = "client" /\ trace[i].raised
HandlerSucceeded == \E i \in DOMAIN HandlerCalls : HandlerCalls[i].err = None
HandlersExhausted ==
    /\ Len(HandlerCalls) = retry_count + 1
    /\ \A i \in DOMAIN HandlerCalls : HandlerCalls[i].raised
MessageFailed == DecodeFailed \/ ClientFailed \/ HandlersExhausted

\* The message was decoded and got its client: on_message_start is due.
Handled ==
    /\ pc \notin {"idle", "decode", "attach"}
    /\ ~DecodeFailed
    /\ ~ClientFailed
\* The handler lookup was reached and found nothing.
NoHandlerFound ==
    /\ Handled
    /\ pc \notin {"start", "resolve"}
    /\ Len(Calls("on_message_start")) = Len(listeners)
    /\ \A i \in DOMAIN trace : trace[i].op = "on_message_start" => ~trace[i].raised
    /\ resolve_handler(topic, evt) = None

\* The error of the failure that decided the message.
FailureCalls ==
    SelectSeq(trace, LAMBDA e : e.op \in {"decode", "client", "handler"} /\ e.raised)
FinalError == FailureCalls[Len(FailureCalls)].err

ListenerRaised ==
    \E i \in DOMAIN trace :
        /\ trace[i].op \in {"on_message_start", "on_message_finish", "on_error"}
        /\ trace[i].raised


\* ------------------------------------------------------------------ claims

\* C1: across all delivery callbacks of one worker, under any interleaving of
\* deliveries, the number of user handlers executing at the same time never
\* exceeds the worker's concurrency setting, which is at least 1.
C1_HandlersBounded ==
    /\ concurrency >= 1
    /\ Cardinality(RunningHandlers) <= concurrency

\* C1 witness: two handlers run at once under concurrency 2, all permits are
\* taken, and a third delivery is blocked on the semaphore.
C1_Witness ==
    /\ concurrency = 2
    /\ Cardinality(RunningHandlers) = 2
    /\ semaphore = 0
    /\ \E c \in Callbacks : cb[c].pc = "waiting"


\* C2: for every message whose metadata carries a non-empty log_id,
\* handle_message issues exactly one event-log status update on every path:
\* SUCCESS with an empty error message when the handler succeeds or no handler
\* is found, FAILED with the string of the final error when decode, client
\* attachment or all handler attempts fail.
C2_OneStatusUpdate ==
    (HmDone /\ LogId # "") =>
        /\ Len(StatusUpdates) = 1
        /\ StatusUpdates[1].log_id = LogId
        /\ (HandlerSucceeded \/ NoHandlerFound) =>
              /\ StatusUpdates[1].status = EVENT_LOG_STATUS_SUCCESS
              /\ StatusUpdates[1].err = ""
        /\ MessageFailed =>
              /\ StatusUpdates[1].status = EVENT_LOG_STATUS_FAILED
              /\ StatusUpdates[1].err = ErrStr(FinalError)

\* C3: for every message that is decoded and has its client attached, each
\* listener's on_message_start is called exactly once and its
\* on_message_finish exactly once, the start before the finish, whether the
\* handler succeeds, fails on all attempts, or no handler is found.
C3_StartAndFinishOnce ==
    (HmDone /\ Handled) =>
        \A l \in ListenerIds :
            /\ Cardinality(Positions("on_message_start", l)) = 1
            /\ Cardinality(Positions("on_message_finish", l)) = 1
            /\ \A i \in Positions("on_message_start", l),
                  j \in Positions("on_message_finish", l) : i < j

\* C4: for every message, on_error is notified exactly once if the final
\* outcome is a failure (decode failure, client-attachment failure, or handler
\* failure on all retry_count+1 attempts) and not at all otherwise.
C4_OnErrorIffFailure ==
    HmDone =>
        \A l \in ListenerIds :
            Len(CallsTo("on_error", l)) = (IF MessageFailed THEN 1 ELSE 0)


DriverIsAmqpExactly == DictGet(msg.metadata, METADATA_KEY_DRIVER, "") = "amqp"
\* The driver value compared after lower-casing.
DriverIsAmqpAnyCase ==
    Lower(DictGet(msg.metadata, METADATA_KEY_DRIVER, "")) = "amqp"

\* C6 (as written): the value the delivery callback returns to the subscriber
\* is true exactly when the message failed, the retry decision has retry or
\* nack set, and the message's driver metadata value equals "amqp"; in every
\* other case it is false.
C6_RequeueExactAmqp ==
    pc = "cb_returned" =>
        /\ cb_result \in {"True", "False"}
        /\ cb_result = "True" <=>
              (MessageFailed /\ (decision.retry \/ decision.nack) /\ DriverIsAmqpExactly)

\* C6 (amended): the value the delivery callback returns to the subscriber is
\* true exactly when the message failed, the retry decision has retry or nack
\* set, and the message's driver metadata value equals "amqp" once lower-cased
\* ("AMQP" counts); in every other case it is false.
C6_RequeueLowercasedAmqp ==
    pc = "cb_returned" =>
        /\ cb_result \in {"True", "False"}
        /\ cb_result = "True" <=>
              (MessageFailed /\ (decision.retry \/ decision.nack) /\ DriverIsAmqpAnyCase)

\* C6 witness: a failed message whose driver metadata is "AMQP" is requeued.
C6_Witness ==
    /\ pc = "cb_returned"
    /\ cb_result = "True"
    /\ MessageFailed
    /\ DictGet(msg.metadata, METADATA_KEY_DRIVER, "") = "AMQP"

\* The retry loop has ended for a message with a resolved handler.
LoopOver == handler # None /\ pc # "attempt"
\* Index of the first successful attempt; beyond every attempt when none succeeds.
FirstSuccess ==
    IF HandlerSucceeded
    THEN CHOOSE i \in DOMAIN HandlerCalls :
            /\ HandlerCalls[i].err = None
            /\ \A j \in 1..(i - 1) : HandlerCalls[j].err # None
    ELSE retry_count + 2

\* C7: for a message with a resolved handler the wrapped handler is invoked
\* exactly min(k, retry_count+1) times, k the index of the first successful
\* attempt (retry_count >= 0): no attempt follows a success, and when every
\* attempt fails, the error given to the listeners, the status update and the
\* retry policy is the error of the last attempt.
C7_AttemptsAndLastError ==
    /\ retry_count >= 0
    /\ \A i \in DOMAIN HandlerCalls : i < Len(HandlerCalls) => HandlerCalls[i].err # None
    /\ handler = None => Len(HandlerCalls) = 0
    /\ LoopOver => Len(HandlerCalls) = Min(FirstSuccess, retry_count + 1)
    /\ HandlersExhausted =>
          \A i \in DOMAIN trace :
              /\ trace[i].op \in {"on_message_finish", "on_error", "retry_policy"} =>
                    trace[i].err = HandlerCalls[Len(HandlerCalls)].err
              /\ trace[i].op = "update_status" =>
                    trace[i].err = ErrStr(HandlerCalls[Len(HandlerCalls)].err)

\* C7 witness: three attempts failed, the first with another error than the
\* last, and the last error reached listener, status update and retry policy.
C7_Witness ==
    /\ pc = "hm_returned"
    /\ retry_count = 2
    /\ HandlersExhausted
    /\ HandlerCalls[1].err = "E1"
    /\ HandlerCalls[3].err = "E2"
    /\ \E i \in DOMAIN trace : trace[i].op = "on_message_finish" /\ trace[i].err = "E2"
    /\ \E i \in DOMAIN trace : trace[i].op = "on_error" /\ trace[i].err = "E2"
    /\ \E i \in DOMAIN trace : trace[i].op = "update_status" /\ trace[i].err = "bad"
    /\ Len(PolicyCalls) = 1

\* C8: when the handler fails on all attempts, the retry policy is consulted
\* exactly once, with the decoded event and the final error, and
\* handle_message returns decision.retry or decision.nack.
C8_PolicyOnceOnHandlerFailure ==
    (HmDone /\ HandlersExhausted) =>
        /\ Len(PolicyCalls) = 1
        /\ PolicyCalls[1].evt = "evt"
        /\ PolicyCalls[1].err = FinalError
        /\ HmReturned => result = PyBool(decision.retry \/ decision.nack)

\* C9: when the codec fails to decode a message, no handler or middleware is
\* invoked and neither on_message_start nor on_message_finish is notified;
\* on_error and the retry policy each receive a nil event and the decode error
\* exactly once, and handle_message returns decision.retry or decision.nack.
C9_DecodeFailure ==
    (HmDone /\ DecodeFailed) =>
        /\ Len(HandlerCalls) = 0
        /\ Len(Calls("on_message_start")) = 0
        /\ Len(Calls("on_message_finish")) = 0
        /\ \A l \in ListenerIds :
              /\ Len(CallsTo("on_error", l)) = 1
              /\ CallsTo("on_error", l)[1].evt = "nil"
              /\ CallsTo("on_error", l)[1].err = FinalError
        /\ Len(PolicyCalls) = 1
        /\ PolicyCalls[1].evt = "nil"
        /\ PolicyCalls[1].err = FinalError
        /\ HmReturned => result = PyBool(decision.retry \/ decision.nack)

\* C10: when a client provider is configured and fails for a message, status
\* FAILED is reported, on_error and the retry policy each receive the decoded
\* event and the error once, no handler is invoked, on_message_start is not
\* notified, and handle_message returns decision.retry or decision.nack.
C10_ClientFailure ==
    (HmDone /\ ClientFailed) =>
        /\ client_provider
        /\ LogId # "" =>
              /\ Len(StatusUpdates) = 1
              /\ StatusUpdates[1].status = EVENT_LOG_STATUS_FAILED
              /\ StatusUpdates[1].err = ErrStr(FinalError)
        /\ Len(HandlerCalls) = 0
        /\ Len(Calls("on_message_start")) = 0
        /\ \A l \in ListenerIds :
              /\ Len(CallsTo("on_error", l)) = 1
              /\ CallsTo("on_error", l)[1].evt = "evt"
              /\ CallsTo("on_error", l)[1].err = FinalError
        /\ Len(PolicyCalls) = 1
        /\ PolicyCalls[1].evt = "evt"
        /\ PolicyCalls[1].err = FinalError
        /\ HmReturned => result = PyBool(decision.retry \/ decision.nack)


\* C11: when neither a topic handler nor a type handler matches a decoded
\* message, every listener's on_message_finish is notified with no error,
\* status SUCCESS is reported, on_error and the retry policy are not invoked,
\* and the requeue flag handle_message returns is false.
C11_NoHandlerPath ==
    (HmDone /\ NoHandlerFound) =>
        /\ \A l \in ListenerIds :
              /\ Len(CallsTo("on_message_finish", l)) = 1
              /\ CallsTo("on_message_finish", l)[1].err = None
        /\ LogId # "" =>
              /\ Len(StatusUpdates) = 1
              /\ StatusUpdates[1].status = EVENT_LOG_STATUS_SUCCESS
        /\ Len(Calls("on_error")) = 0
        /\ Len(PolicyCalls) = 0
        /\ Len(HandlerCalls) = 0
        /\ HmReturned => result = "False"


\* The handlers registered for event types.
TypeHandlerIds == {type_handlers[ty] : ty \in DOMAIN type_handlers}

\* C12: handler resolution uses the handler registered for the subscription
\* topic when one exists and only otherwise the handler registered for the
\* event's type; a type handler is never invoked for a message delivered on a
\* topic that has its own handler.
C12_TopicHandlerFirst ==
    /\ \A i \in DOMAIN HandlerCalls :
          IF topic \in DOMAIN topic_handlers
          THEN /\ HandlerCalls[i].callee = topic_handlers[topic]
               /\ HandlerCalls[i].callee \notin TypeHandlerIds
          ELSE /\ evt.type \in DOMAIN type_handlers
               /\ HandlerCalls[i].callee = type_handlers[evt.type]
    /\ (Handled /\ pc \notin {"start", "resolve", "hm_raised", "cb_raised"}) =>
          handler = (IF topic \in DOMAIN topic_handlers THEN topic_handlers[topic]
                     ELSE IF evt.type \in DOMAIN type_handlers
                          THEN type_handlers[evt.type]
                     ELSE None)

\* C12 witness: a push event arrives on topic t1 while both the topic and the
\* event type have a handler, and the topic's handler has been invoked.
C12_Witness ==
    /\ topic = "t1"
    /\ "t1" \in DOMAIN topic_handlers
    /\ evt.type \in DOMAIN type_handlers
    /\ Len(HandlerCalls) >= 1
    /\ HandlerCalls[1].callee = "h_topic"


\* C13: with middleware registered in the order [M1, M2, M3], the handler
\* invoked for a message is M1(M2(M3(H))): on each invocation the wrappers
\* are entered in registration order, M1's first, and H is entered last.
C13_MiddlewareOrder ==
    LET n == Len(middleware) IN
    /\ handler # None => wrapped = middleware \o <<handler>>
    /\ \A i \in DOMAIN trace :
          trace[i].op = "handler" =>
              /\ i > n
              /\ trace[i].callee = handler
              /\ \A j \in 1..n :
                    /\ trace[i - n - 1 + j].op = "middleware"
                    /\ trace[i - n - 1 + j].callee = middleware[j]
    /\ Len(Calls("middleware")) = n * Len(HandlerCalls)

\* C13 witness: with [M1, M2, M3] registered the composed handler has been
\* invoked twice, each time entering M1, M2, M3 and then the topic handler.
C13_Witness ==
    /\ middleware = <<"M1", "M2", "M3">>
    /\ pc = "hm_returned"
    /\ Len(HandlerCalls) = 2
    /\ Len(Calls("middleware")) = 6
    /\ trace[2].callee = "M1"
    /\ trace[4].callee = "M3"
    /\ trace[5].callee = "h_topic"


\* ------------------------------------------- reading the run (SpecSetup)
RunDone == run_pc # "setup"
\* get_rule finds the rule and the record passes the checks of the prologue.
RuleOk(rule_id) ==
    /\ rule_id \in DOMAIN rules
    /\ rules[rule_id].emit # <<>>
    /\ Trim(rules[rule_id].emit[1]) # ""
    /\ Trim(rules[rule_id].driver_id) # ""
\* run() was called and its rule prologue returned.
PrologueReturned ==
    /\ RunDone
    /\ \A i \in DOMAIN rule_handlers : RuleOk(rule_handlers[i].id)
FirstEmit(rule_id) == Trim(rules[rule_id].emit[1])
\* The driver a topic is bound to: its own, or else the worker's default.
DriverOf(t) == DictGet(topic_drivers, t, default_driver_id)


\* C14 (as written): after any sequence of add_topics, handle_topic,
\* handle_rule and the run() rule prologue, if allowed_topics is non-empty
\* then every topic that has a bound handler is a member of allowed_topics.
C14_HandlersWithinAllowed ==
    allowed_topics # {} => DOMAIN topic_handlers \subseteq allowed_topics

\* C14 (amended): a registration call made while allowed_topics is non-empty
\* and leaving it as it is (handle_topic) binds a handler or a driver, or
\* appends to topics, only for a member of allowed_topics. Handlers bound by
\* handle_topic while allowed_topics was still empty, and those bound by the
\* run() rule prologue, can lie outside allowed_topics.
C14_HandleTopicWithinAllowed ==
    [][(run_pc' = "setup" /\ allowed_topics # {} /\ allowed_topics' = allowed_topics) =>
          /\ \A i \in DOMAIN topics' :
                i > Len(topics) => topics'[i] \in allowed_topics
          /\ \A t \in DOMAIN topic_handlers' :
                (t \notin DOMAIN topic_handlers \/ topic_handlers'[t] # topic_handlers[t])
                    => t \in allowed_topics
          /\ \A t \in DOMAIN topic_drivers' :
                (t \notin DOMAIN topic_drivers \/ topic_drivers'[t] # topic_drivers[t])
                    => t \in allowed_topics]_vars

\* C14 witness: with allowed_topics = {t1}, handle_topic has bound t1 and
\* has just dropped t2 as not subscribed.
C14_Witness ==
    /\ allowed_topics = {"t1"}
    /\ DOMAIN topic_handlers = {"t1"}
    /\ topics = <<"t1", "t1">>
    /\ last_call.op = "handle_topic"
    /\ last_call.arg = "t2"
    /\ last_call.outcome = "not_subscribed"


\* C15 (as written): for every handler registered with handle_rule, after the
\* run() rule prologue the handler bound to that rule's first emit topic is
\* the rule's handler and the topic's driver is the rule's driver_id,
\* regardless of any earlier handle_topic registration for the same topic.
C15_EveryRuleHandlerBound ==
    PrologueReturned =>
        \A i \in DOMAIN rule_handlers :
            LET rule_id == rule_handlers[i].id
                t == FirstEmit(rule_id)
            IN /\ t \in DOMAIN topic_handlers
               /\ topic_handlers[t] = rule_handlers[i].handler
               /\ t \in DOMAIN topic_drivers
               /\ topic_drivers[t] = Trim(rules[rule_id].driver_id)

\* The last-registered rule whose first emit topic is that of rule i.
LastRuleFor(i) ==
    CHOOSE j \in DOMAIN rule_handlers :
        /\ FirstEmit(rule_handlers[j].id) = FirstEmit(rule_handlers[i].id)
        /\ \A k \in DOMAIN rule_handlers :
              FirstEmit(rule_handlers[k].id) = FirstEmit(rule_handlers[i].id) => k <= j

\* C15 (amended): after the run() rule prologue has returned, for every rule
\* registered with handle_rule the handler bound to the rule's first emit
\* topic and the topic's driver are those of the last-registered rule with
\* that first emit topic (the rule's own when no later rule shares the
\* topic), regardless of any earlier handle_topic registration for the topic;
\* the topic is in the topics list.
C15_LastRuleHandlerBound ==
    PrologueReturned =>
        \A i \in DOMAIN rule_handlers :
            LET last == rule_handlers[LastRuleFor(i)]
                t == FirstEmit(rule_handlers[i].id)
            IN /\ t \in DOMAIN topic_handlers
               /\ topic_handlers[t] = last.handler
               /\ t \in DOMAIN topic_drivers
               /\ topic_drivers[t] = Trim(rules[last.id].driver_id)
               /\ t \in Range(topics)

\* C15 witness: t1 was registered through handle_topic, then rules r1 and r2,
\* both emitting t1 first, were resolved by the prologue: t1 is bound to the
\* handler and the driver of r2, the rule registered last.
C15_Witness ==
    /\ PrologueReturned
    /\ Len(rule_handlers) = 2
    /\ rule_handlers[1].id = "r1"
    /\ FirstEmit("r1") = "t1"
    /\ FirstEmit("r2") = "t1"
    /\ allowed_topics = {}
    /\ topics = <<"t1", "t1", "t1">>
    /\ topic_handlers["t1"] = RuleHandlerOf("r2")
    /\ topic_drivers["t1"] = "D2"


\* The topics whose driver has no rule emitting them when run() validates.
BadBindings ==
    {t \in Range(topics) :
        /\ DriverOf(t) # ""
        /\ t \notin rule_topics_by_driver(rules, DriverOf(t))}
TopicNotConfigured(t) ==
    Err("topic %s not configured for driver %s", t, DriverOf(t))

\* C16 (as written): with validate_topics enabled and topic t bound to driver
\* D, if no rule returned by the control plane emits t under driver D, run()
\* fails with the error "topic t not configured for driver D" and no
\* subscriber's start() has been called.
C16_TopicNotConfiguredError ==
    (PrologueReturned /\ validate /\ BadBindings # {}) =>
        /\ \E t \in BadBindings : run_error = TopicNotConfigured(t)
        /\ started = {}

\* The exceptions of validate_topics in per-driver mode.
ValidationErrorTexts ==
    {"no rules available from api", "no topics available from rules",
     "driver id is required for topic: %s",
     "driver not configured on any rule: %s",
     "topic %s not configured for driver %s"}

\* C16 (amended): with validate_topics enabled, no injected subscriber and
\* topic t bound to driver D, if no rule returned by the control plane emits
\* t under driver D, run() fails in validation, before on_start and before
\* any subscriber's start(). The error is "topic t not configured for driver
\* D" when t is the first topic of the list and some rule emits another topic
\* under D; it is "driver not configured on any rule: D" when no rule emits
\* any topic under D, and another validation error when the control plane
\* has no rules or an earlier topic of the list fails first.
C16_ValidationRejects ==
    (PrologueReturned /\ validate /\ subscriber = None /\ BadBindings # {}) =>
        /\ run_pc = "failed"
        /\ started = {}
        /\ run_calls = <<>>
        /\ run_error.text \in ValidationErrorTexts
        /\ run_error.text = "topic %s not configured for driver %s" =>
              /\ run_error.a \in BadBindings
              /\ run_error = TopicNotConfigured(run_error.a)
              /\ rule_topics_by_driver(rules, run_error.b) # {}
        /\ run_error.text = "driver not configured on any rule: %s" =>
              /\ rule_topics_by_driver(rules, run_error.a) = {}
              /\ \E t \in Range(topics) : DriverOf(t) = run_error.a
        /\ LET t == topics[1]
           IN (t \in BadBindings /\ rule_topics_by_driver(rules, DriverOf(t)) # {})
                  => run_error = TopicNotConfigured(t)

\* C16 witness: t2 is bound to D1, whose only rule emits t1, and run() has
\* failed with "topic t2 not configured for driver D1" before any start().
C16_Witness ==
    /\ RunDone
    /\ validate
    /\ subscriber = None
    /\ "t2" \in DOMAIN topic_drivers
    /\ topic_drivers["t2"] = "D1"
    /\ rule_topics_by_driver(rules, "D1") = {"t1"}
    /\ run_error = Err("topic %s not configured for driver %s", "t2", "D1")
    /\ started = {}


\* C17: if the topics list is still empty after the rule prologue, run()
\* fails with "at least one topic is required" without starting any
\* subscriber and without notifying on_start.
C17_NoTopicsError ==
    (PrologueReturned /\ topics = <<>>) =>
        /\ run_pc = "failed"
        /\ run_error = Err("at least one topic is required", "", "")
        /\ started = {}
        /\ run_calls = <<>>

\* C17 witness: a worker whose only registration attempt was dropped ran
\* with an empty topics list and failed with the error.
C17_Witness ==
    /\ RunDone
    /\ topics = <<>>
    /\ rule_handlers = <<>>
    /\ run_error = Err("at least one topic is required", "", "")
    /\ started = {}
    /\ run_calls = <<>>


\* ------------------------------------------------- listeners, status updates
NotificationOps == {"on_message_start", "on_message_finish", "on_error"}

\* C18: at every notification point all registered listeners are invoked in
\* registration order, and a failure (exception) in one listener does not
\* prevent the listeners registered after it from being invoked.
C18_AllListenersNotified ==
    \A op \in NotificationOps :
        /\ Len(Calls(op)) \in {0, Len(listeners)}
        /\ \A i \in DOMAIN Calls(op) : Calls(op)[i].listener = listeners[i]

\* The exception that left handle_message came out of a listener.
ListenerErrorEscaped ==
    /\ pc \in {"hm_raised", "cb_raised"}
    /\ trace # <<>>
    /\ trace[Len(trace)].op \in NotificationOps
    /\ trace[Len(trace)].raised

\* C19: a listener failure never changes the dispatch of a message: the
\* handler invocations, the status update issued and the requeue flag
\* returned by handle_message are the same as when no listener fails, and no
\* listener exception escapes handle_message.
C19_ListenerFailureHarmless ==
    /\ ~ListenerErrorEscaped
    /\ (HmDone /\ ListenerRaised) =>
          /\ HmReturned
          /\ LogId # "" => Len(StatusUpdates) = 1
          /\ (Handled /\ resolve_handler(topic, evt) # None) => Len(HandlerCalls) >= 1
          /\ MessageFailed => Len(PolicyCalls) = 1


\* The calls handle_message made after its i-th call.
CallsAfter(i) == SubSeq(trace, i + 1, Len(trace))
PolicyRaised ==
    \E i \in DOMAIN trace : trace[i].op = "retry_policy" /\ trace[i].raised

\* C20: a failing event-log status update is swallowed: no exception escapes,
\* and handle_message performs the same listener and retry-policy calls and
\* returns the same requeue flag as when the update succeeds. (What follows
\* an update is fixed by the path alone: nothing and False after SUCCESS; one
\* retry-policy call after the FAILED of exhausted handlers; on_error for
\* every listener and then the retry policy after the FAILED of a decode or
\* client failure.)
C20_StatusFailureSwallowed ==
    \A i \in DOMAIN trace :
        trace[i].op = "update_status" =>
            /\ ~(i = Len(trace) /\ pc \in {"hm_raised", "cb_raised"})
            /\ trace[i].status = EVENT_LOG_STATUS_SUCCESS =>
                  /\ CallsAfter(i) = <<>>
                  /\ HmReturned
                  /\ result = "False"
            /\ (trace[i].status = EVENT_LOG_STATUS_FAILED /\ HandlersExhausted
                   /\ HmDone) =>
                  /\ Len(CallsAfter(i)) = 1
                  /\ CallsAfter(i)[1].op = "retry_policy"
                  /\ HmReturned => result = PyBool(decision.retry \/ decision.nack)
            /\ (trace[i].status = EVENT_LOG_STATUS_FAILED /\ ~HandlersExhausted
                   /\ HmDone) =>
                  /\ \A j \in DOMAIN CallsAfter(i) :
                        CallsAfter(i)[j].op =
                            (IF j <= Len(listeners) THEN "on_error" ELSE "retry_policy")
                  /\ ~ListenerRaised =>
                        /\ Len(CallsAfter(i)) = Len(listeners) + 1
                        /\ \A j \in 1..Len(listeners) :
                              CallsAfter(i)[j].listener = listeners[j]
                  /\ HmReturned => result = PyBool(decision.retry \/ decision.nack)

\* C20 witness: the FAILED update of a message whose handler attempts all
\* failed itself failed; the retry policy was still consulted and
\* handle_message returned its decision, True.
C20_Witness ==
    /\ pc = "hm_returned"
    /\ HandlersExhausted
    /\ Len(StatusUpdates) = 1
    /\ StatusUpdates[1].raised
    /\ Len(listeners) = 2
    /\ Len(Calls("on_error")) = 2
    /\ Len(PolicyCalls) = 1
    /\ result = "True"


\* ------------------------------------------------ reading run() (SpecSetup)
\* The subscriber a topic is to be started on: the injected one, or else the
\* one built for the topic's driver.
SubscriberOf(t) == IF subscriber # None THEN INJECTED ELSE DriverOf(t)
\* run() got as far as the fan-out.
FanOutReached == run_pc = "started"

\* C27: when run() reaches the fan-out, exactly one start(topic, .) call is
\* made for every distinct topic of the topics list, on the injected
\* subscriber when there is one and otherwise on the subscriber built for the
\* topic's driver (the default driver when the topic has none of its own);
\* and when some topic has neither an explicit nor a default driver, run()
\* fails instead of reaching the fan-out.
C27_OneStartPerTopic ==
    /\ FanOutReached =>
           started = {<<SubscriberOf(t), t>> : t \in Range(topics)}
    /\ (RunDone /\ subscriber = None
           /\ \E t \in Range(topics) : DriverOf(t) = "") => run_pc = "failed"


\* The driver ids run() groups the topics under in per-driver mode: those of
\* the topic -> driver map, or the default driver when no topic has its own.
UsedDrivers ==
    IF DOMAIN topic_drivers = {} THEN {default_driver_id} \ {""}
    ELSE {topic_drivers[t] : t \in DOMAIN topic_drivers}
UnusableDrivers == {d \in UsedDrivers : driver_records[d] # "enabled"}

HandleTopicRejects(call) ==
    \/ call.arg = ""
    \/ allowed_topics # {} /\ call.arg \notin allowed_topics
    \/ call.handler = None
    \/ call.driver = "" /\ default_driver_id = "" /\ subscriber = None
\* The driver handle_topic binds: the explicit one, or else the default.
BoundDriver(call) == IF call.driver # "" THEN call.driver ELSE default_driver_id

\* C29: when handle_topic rejects a registration (empty topic after
\* trimming, topic outside a non-empty allowed_topics, no handler, or no
\* driver id and no default driver while no subscriber is injected), the
\* topic -> handler map, the topic -> driver map and the topics list are all
\* left unchanged; when it accepts, exactly the trimmed topic's handler, its
\* driver (explicit or default, when there is one) and one appended topics
\* entry change.
C29_HandleTopicFrame ==
    [][last_call'.op = "handle_topic" =>
          IF HandleTopicRejects(last_call')
          THEN UNCHANGED <<topic_handlers, topic_drivers, topics>>
          ELSE /\ topic_handlers' =
                     Put(topic_handlers, last_call'.arg, last_call'.handler)
               /\ topic_drivers' =
                     (IF BoundDriver(last_call') # ""
                      THEN Put(topic_drivers, last_call'.arg, BoundDriver(last_call'))
                      ELSE topic_drivers)
               /\ topics' = Append(topics, last_call'.arg)]_vars

\* C29 witness: t1 is bound under D2, and an accepted handle_topic("t2", h)
\* without a driver id has just bound t2 under the default driver D1.
C29_Witness ==
    /\ last_call.op = "handle_topic"
    /\ last_call.arg = "t2"
    /\ last_call.driver = ""
    /\ ~HandleTopicRejects(last_call)
    /\ topic_drivers = [t \in Topics |-> IF t = "t1" THEN "D2" ELSE "D1"]
    /\ topics = <<"t1", "t2">>


\* The place of a step in the order of the pipeline: on the path through the
\* handler, and on the path of a decode or client-attachment failure (where
\* no step but those five may follow).
HandlerPathRank(op) ==
    CASE op = "decode" -> 1
      [] op = "client" -> 2
      [] op = "on_message_start" -> 3
      [] op \in {"middleware", "handler"} -> 4
      [] op = "on_message_finish" -> 5
      [] op = "on_error" -> 6
      [] op = "update_status" -> 7
      [] op = "retry_policy" -> 8
EarlyFailureRank(op) ==
    CASE op = "decode" -> 1
      [] op = "client" -> 2
      [] op = "update_status" -> 3
      [] op = "on_error" -> 4
      [] op = "retry_policy" -> 5
      [] OTHER -> 0
StepRank(op) ==
    IF DecodeFailed \/ ClientFailed THEN EarlyFailureRank(op)
    ELSE HandlerPathRank(op)
\* Every listener got the notification op, and none of them raised.
NotifiedAll(op) ==
    \A l \in ListenerIds :
        \E i \in Positions(op, l) : ~trace[i].raised

\* C30: within one message the observable steps happen strictly in pipeline
\* order: decode, client attachment, on_message_start, handler attempts,
\* on_message_finish, then (on failure) on_error, then the status update,
\* then the retry-policy call; on a decode or client-attachment failure the
\* status update comes before on_error, which comes before the retry-policy
\* call. No step is followed by a step of an earlier place, and the
\* retry-policy call is made only after the steps before it: on_error to
\* every listener, the status update of a message with a log id, and on the
\* handler path on_message_start and on_message_finish to every listener.
C30_PipelineOrder ==
    /\ \A i \in 1..(Len(trace) - 1) :
          StepRank(trace[i].op) <= StepRank(trace[i + 1].op)
    /\ PolicyCalls # <<>> =>
          /\ Len(PolicyCalls) = 1
          /\ NotifiedAll("on_error")
          /\ LogId # "" => Len(StatusUpdates) = 1
          /\ ~(DecodeFailed \/ ClientFailed) =>
                /\ HandlersExhausted
                /\ NotifiedAll("on_message_start")
                /\ NotifiedAll("on_message_finish")

\* C30 witness: a message with a log id got its client, its handler failed
\* on every attempt, two listeners were notified, and the retry policy was
\* called last.
C30_Witness ==
    /\ HmReturned
    /\ Len(listeners) = 2
    /\ Calls("client") # <<>>
    /\ HandlersExhausted
    /\ Len(Calls("on_error")) = 2
    /\ Len(StatusUpdates) = 1
    /\ trace[Len(trace)].op = "retry_policy"


\* ---------------------------------------------- reading the fan-out
\* run() has ended, by a return or by an exception.
RunEnded == run_pc \in {"returned", "failed"}
TaskEnded(k) == tasks[k].pc \in {"returned", "failed"}
FailedTasks == {k \in DOMAIN tasks : tasks[k].pc = "failed"}
\* The subscribers the worker owns: the injected one, or the one built for
\* each driver.
OwnedSubscribers ==
    IF subscriber # None THEN {INJECTED} ELSE DOMAIN driver_records

\* C21: once the cancellation signal is set, every start() call made by the
\* fan-out returns and run() eventually returns, for any number of topics per
\* subscriber (several topics sharing one driver subscriber included) and
\* for any timing of the signal (a signal set before a subscriber has
\* connected included).
C21_CancelEndsRun ==
    (signal = "set") ~> (RunEnded /\ \A k \in DOMAIN tasks : TaskEnded(k))

\* C22: when the cancellation signal is set while the fan-out is running,
\* close() is called on every subscriber the worker owns (the injected
\* subscriber, or every entry of driver_subs), even if close() of one of
\* them raises.
C22_CancelClosesAll ==
    (signal = "set" /\ run_pc = "joining")
        ~> (OwnedSubscribers \subseteq ClosedSubscribers)

\* C22 witness: in per-driver mode with the subscribers of D1 and D2, the
\* signal was set while the tasks were running and close() has been called
\* on both subscribers.
C22_Witness ==
    /\ subscriber = None
    /\ signal = "set"
    /\ run_pc = "joining"
    /\ OwnedSubscribers = {"D1", "D2"}
    /\ ClosedSubscribers = {"D1", "D2"}
    /\ watcher = "done"

\* C23: when any fan-out task ends with an error, the cancellation signal is
\* raised so that the sibling tasks' subscribers are closed, and run()
\* eventually returns by raising an error, however run() was given its
\* cancellation signal (a plain signal, a context, or none).
C23_TaskErrorEndsRun ==
    (FailedTasks # {})
        ~> (run_pc = "failed" /\ OwnedSubscribers \subseteq ClosedSubscribers)

\* C24: when one or more fan-out tasks fail, run() raises only after every
\* task has ended, and the error it raises is the one of the task whose
\* failure was recorded first; the other errors are not raised.
C24_FirstErrorRaised ==
    (RunEnded /\ errors # <<>>) =>
        /\ \A k \in DOMAIN tasks : TaskEnded(k)
        /\ run_pc = "failed"
        /\ run_error = TaskError(errors[1])

\* C25: in a driver subscriber, a transient timeout raised by the underlying
\* delivery loop makes start() re-enter the loop, while any other error
\* terminates start() and propagates to its caller, so that the fan-out task
\* fails and run() reports the error.
C25_LoopErrorPropagates ==
    \A k \in DOMAIN tasks :
        tasks[k].inner_raised =>
            /\ tasks[k].pc = "failed"
            /\ k \in Range(errors)
            /\ RunEnded => run_pc = "failed"


\* The child threads a start() call has launched.
ChildrenOf(t) == {c \in DOMAIN child_starts : c[1] = t}

\* C26: a composite subscriber's start(topic, handler) returns only after
\* the start() of every child subscriber launched by that call has returned,
\* including when start() is called concurrently for several topics on the
\* same composite subscriber.
C26_StartJoinsItsChildren ==
    \A t \in DOMAIN starts :
        starts[t].pc = "returned" =>
            \A c \in ChildrenOf(t) : child_starts[c] = "returned"


\* ------------------------------------------ reading a cancelled message
\* The signal was set while this message was in the pipeline.
CancelledDuringMessage == Calls("signal_set") # <<>>
\* The calls made after the signal was set.
CallsAfterCancel ==
    LET at == CHOOSE i \in DOMAIN trace : trace[i].op = "signal_set"
    IN SubSeq(trace, at + 1, Len(trace))
\* What handle_message returns when nothing else is known than how the
\* codec, the handler and the retry policy answered.
ExpectedResult ==
    IF MessageFailed THEN PyBool(decision.retry \/ decision.nack) ELSE "False"
\* The status the message's one update reports.
ExpectedStatus ==
    IF MessageFailed THEN EVENT_LOG_STATUS_FAILED ELSE EVENT_LOG_STATUS_SUCCESS

\* C31: setting the cancellation signal while a message is in the pipeline
\* does not interrupt it: the handler attempts still number
\* min(k, retry_count+1), k the index of the first success; once the loop is
\* over the pipeline goes on to on_message_finish with the last attempt's
\* error; a message that handle_message returns from has its one status
\* update (when it has a log id), SUCCESS or FAILED as the attempts went, and
\* the returned flag is what the retry decision gives (False on success),
\* exactly as for a message that was not cancelled.
C31_CancelDoesNotInterrupt ==
    CancelledDuringMessage =>
        /\ LoopOver => Len(HandlerCalls) = Min(FirstSuccess, retry_count + 1)
        /\ (LoopOver /\ pc \notin DOMAIN AfterFinish) =>
              /\ Calls("on_message_finish") # <<>>
              /\ Calls("on_message_finish")[1].err =
                    HandlerCalls[Len(HandlerCalls)].err
        /\ HmReturned =>
              /\ Len(StatusUpdates) = (IF LogId = "" THEN 0 ELSE 1)
              /\ \A i \in DOMAIN StatusUpdates :
                    StatusUpdates[i].status = ExpectedStatus
              /\ result = ExpectedResult
        /\ pc = "cb_returned" => cb_result = callback_result(ExpectedResult, msg)

\* C31 witness: the signal was set after the first of three failing attempts
\* of a message with a log id; the two other attempts, on_message_finish, the
\* FAILED update and the retry policy followed, and the callback asked for a
\* requeue.
C31_Witness ==
    /\ pc = "cb_returned"
    /\ retry_count = 2
    /\ HandlersExhausted
    /\ trace[4].op = "signal_set"
    /\ Len(SelectSeq(CallsAfterCancel, LAMBDA e : e.op = "handler")) = 2
    /\ Len(SelectSeq(CallsAfterCancel, LAMBDA e : e.op = "on_message_finish")) = 1
    /\ Len(SelectSeq(CallsAfterCancel, LAMBDA e : e.op = "update_status")) = 1
    /\ StatusUpdates[1].status = EVENT_LOG_STATUS_FAILED
    /\ cb_result = "True"


\* The truth values a dict holds under the keys `keys`, or the default when
\* it has none of them.
DictReadings(d, keys, default) ==
    IF keys \cap DOMAIN d = {} THEN {default}
    ELSE {Bool(d[k]) : k \in keys \cap DOMAIN d}

\* C32: retry-decision normalisation returns a structured decision
\* unchanged, reads a map's retry/Retry and nack/Nack keys with defaults
\* retry=false and nack=true for missing keys, and maps any other value
\* (none included) to {retry=false, nack=true}, so that a policy returning
\* nothing still makes the failed message requeue-eligible (retry or nack).
C32_NormalizeRetryDecision ==
    output # <<>> =>
        /\ input.kind = "RetryDecision" => output[1] = input.val
        /\ input.kind = "dict" =>
              /\ output[1].retry \in DictReadings(input.val, {"retry", "Retry"}, FALSE)
              /\ output[1].nack \in DictReadings(input.val, {"nack", "Nack"}, TRUE)
        /\ input.kind \notin {"RetryDecision", "dict"} =>
              /\ output[1] = [retry |-> FALSE, nack |-> TRUE]
              /\ output[1].retry \/ output[1].nack

\* C32 witness: the policy returned None and the decision is the default.
C32_Witness ==
    /\ input.kind = "None"
    /\ output = <<[retry |-> FALSE, nack |-> TRUE]>>


\* The codec returned an event.
Decoded == output # <<>> /\ output[1].ok
\* str.strip() of the explicit topic argument, "" for None.
TrimmedArgument == Trim(IF input.topic = None THEN "" ELSE input.topic)

\* C33: for every message the default codec decodes, the event's topic is
\* the trimmed explicit topic argument when that is non-empty and the
\* message's own topic otherwise; an empty provider or type is filled from the
\* metadata keys provider and event; the event's metadata equals the
\* message's metadata.
C33_DecodePostProcessing ==
    Decoded =>
        /\ TrimmedArgument # "" => output[1].topic = TrimmedArgument
        /\ TrimmedArgument = "" => output[1].topic = input.msg.topic
        /\ output[1].provider =
              (IF input.msg.payload.provider # "" THEN input.msg.payload.provider
               ELSE DictGet(input.msg.metadata, "provider", ""))
        /\ output[1].type =
              (IF input.msg.payload.name # "" THEN input.msg.payload.name
               ELSE DictGet(input.msg.metadata, "event", ""))
        /\ output[1].metadata = input.msg.metadata

\* C33 witness: an envelope without provider, decoded for a padded topic
\* argument: the topic is the trimmed argument, not the message's, and the
\* provider comes from the metadata while the type stays the envelope's.
C33_Witness ==
    /\ Decoded
    /\ input.topic = " t1 "
    /\ input.msg.topic = "t2"
    /\ input.msg.payload = [form |-> "envelope", provider |-> "", name |-> "push"]
    /\ DOMAIN input.msg.metadata = {"provider", "event", "log_id"}
    /\ output[1].topic = "t1"
    /\ output[1].provider = "gitlab"
    /\ output[1].type = "push"


\* The calls that returned a token read from the cache.
ServedFromCache ==
    {c \in DOMAIN token_calls :
        token_calls[c].pc = "returned" /\ token_calls[c].from_cache}

\* C34: under any interleaving of concurrent oauth2_token_from_config calls,
\* a token served from the process-wide cache was obtained for the caller's
\* own cache key and is more than 30 seconds from its expiry (at the time the
\* call read the clock).
C34_CachedTokenIsOwnAndFresh ==
    \A c \in ServedFromCache :
        /\ token_calls[c].served.key = token_calls[c].key
        /\ token_calls[c].served.expires_at > token_calls[c].now + RefreshMargin


\* The delivery callbacks inside `with self.semaphore`.
HoldingPermit ==
    {c \in Callbacks : cb[c].pc \in {"pipeline", "attempt", "handler", "leaving"}}

\* C35: every delivery callback gives back its semaphore permit when it
\* ends, also when an exception escapes handle_message: the free permits and
\* the callbacks inside the `with` block always add up to the concurrency
\* setting, so whenever no callback is in progress every permit is free.
C35_PermitsGivenBack ==
    /\ semaphore + Cardinality(HoldingPermit) = concurrency
    /\ (\A c \in Callbacks : cb[c].pc = "idle") => semaphore = concurrency

\* C35 witness: with two permits, a callback left by an exception and
\* another by a return, nothing is in progress and both permits are free.
C35_Witness ==
    /\ concurrency = 2
    /\ \A c \in Callbacks : cb[c].pc = "idle"
    /\ \E c \in Callbacks : cb[c].ended = "raised"
    /\ \E c \in Callbacks : cb[c].ended = "returned"
    /\ semaphore = 2


\* The notifications op that run() gave to listener l.
RunCallsTo(op, l) ==
    {i \in DOMAIN run_calls : run_calls[i].op = op /\ run_calls[i].listener = l}

\* C36: in a run() that reaches the fan-out, each listener's on_start is
\* notified exactly once before any subscriber's start() is called, and its
\* on_exit exactly once after all fan-out tasks have ended, also when a task
\* failed: while tasks run every listener has had its on_start and none its
\* on_exit, and once run() has ended every task has ended and every listener
\* has had on_start once and, after it, on_exit once.
C36_StartAndExitOnce ==
    /\ run_pc \in {"started", "joining"} =>
          \A l \in ListenerIds :
              /\ Cardinality(RunCallsTo("on_start", l)) = 1
              /\ RunCallsTo("on_exit", l) = {}
    /\ RunEnded =>
          /\ \A k \in DOMAIN tasks : TaskEnded(k)
          /\ \A l \in ListenerIds :
                /\ Cardinality(RunCallsTo("on_start", l)) = 1
                /\ Cardinality(RunCallsTo("on_exit", l)) = 1
                /\ \A i \in RunCallsTo("on_start", l), j \in RunCallsTo("on_exit", l) :
                      i < j


\* The entries of wrappers and handler, in the order they were entered.
Invocations == SelectSeq(trace, LAMBDA e : e.op \in {"middleware", "handler"})
\* How often the wrapper of middleware m was entered.
WrapperRuns(m) ==
    Len(SelectSeq(trace, LAMBDA e : e.op = "middleware" /\ e.callee = m))

\* C37: the middleware chain is composed once per message and the composed
\* handler is called on every attempt: the chain does not change while the
\* attempts are made, each attempt enters the wrappers in the same
\* outer-to-inner order and then the handler, and each wrapper has run once
\* per attempt, retry_count+1 times when every attempt failed.
C37_WrappersRunPerAttempt ==
    /\ [](handler # None =>
            LET n == Len(wrapped) IN
            /\ n = Len(middleware) + 1
            /\ Len(Invocations) = n * Len(HandlerCalls)
            /\ \A i \in DOMAIN Invocations :
                  Invocations[i].callee = wrapped[((i - 1) % n) + 1]
            /\ \A j \in DOMAIN middleware :
                  /\ WrapperRuns(middleware[j]) = Len(HandlerCalls)
                  /\ HandlersExhausted =>
                        WrapperRuns(middleware[j]) = retry_count + 1)
    /\ [][pc = "attempt" => wrapped' = wrapped]_vars

\* C37 witness: both attempts of a message failed under [M2, M1], and each
\* wrapper ran twice, M2 before M1 both times.
C37_Witness ==
    /\ middleware = <<"M2", "M1">>
    /\ retry_count = 1
    /\ HandlersExhausted
    /\ WrapperRuns("M1") = 2
    /\ WrapperRuns("M2") = 2
    /\ Invocations[1].callee = "M2"
    /\ Invocations[4].callee = "M2"
    /\ Invocations[5].callee = "M1"


\* The value the last option of `input` that sets field f gave it, d if none.
LastSet(f, d) ==
    LET set == {i \in DOMAIN input : input[i][f] # <<>>}
    IN IF set = {} THEN d
       ELSE input[CHOOSE i \in set : \A j \in set : j <= i][f][1]
\* An option that sets nothing but the listeners or nothing but the middleware.
ListOptionOnly(o) ==
    \/ o.listeners # <<>> /\ o = [NoOptions EXCEPT !.listeners = o.listeners]
    \/ o.middleware # <<>> /\ o = [NoOptions EXCEPT !.middleware = o.middleware]

\* C38: a listeners option or a middleware option replaces the configured
\* list: the worker holds the list of the last such option, run() notifies
\* the listeners of that option only (after WithListener(1), WithListener(2)
\* only listener 2), and applying the option changes no other setting.
C38_ListOptionsReplace ==
    /\ [](/\ listeners = LastSet("listeners", <<>>)
          /\ middleware = LastSet("middleware", <<>>)
          /\ \A i \in DOMAIN run_calls :
                run_calls[i].listener \in Range(LastSet("listeners", <<>>))
          /\ run_pc = "started" =>
                \A l \in Range(LastSet("listeners", <<>>)) :
                    Cardinality(RunCallsTo("on_start", l)) = 1)
    /\ [][\A o \in WorkerOptionValues :
             input' = Append(input, o) /\ ListOptionOnly(o) =>
                /\ o.listeners = <<>> => listeners' = listeners
                /\ o.middleware = <<>> => middleware' = middleware
                /\ UNCHANGED <<retry_count, concurrency, semaphore,
                               client_provider, topic_handlers, type_handlers,
                               allowed_topics, topics, topic_drivers,
                               rule_handlers, default_driver_id, subscriber,
                               validate>>]_vars

\* C38 witness: New(WithListener(1), WithListener(2), ...) ran, and run()
\* notified listener 2 and not listener 1.
C38_Witness ==
    /\ Len(input) >= 2
    /\ input[1] = WithListener(1)
    /\ input[2] = WithListener(2)
    /\ run_pc = "started"
    /\ Cardinality(RunCallsTo("on_start", 2)) = 1
    /\ RunCallsTo("on_start", 1) = {}


\* C39: whenever no get or add call is at work in the cache, whatever calls
\* the threads have made, the cache holds at most `size` entries and its
\* recency list holds exactly the keys of its entry map, each once.
C39_CacheBoundedAndConsistent ==
    lock = None =>
        /\ Cardinality(DOMAIN items) <= size
        /\ Range(order) = DOMAIN items
        /\ Len(order) = Cardinality(DOMAIN items)

\* C39 witness: the cache is full after calls of both threads, and more keys
\* were stored than it holds.
C39_Witness ==
    /\ lock = None
    /\ Len(order) = size
    /\ Len(uses) = size + 1
    /\ cache_calls["a"].op = "add"
    /\ cache_calls["b"].op = "get"
    /\ cache_calls["b"].returned = <<SCMClient>>


\* How long ago key was last used: its place in the history of uses.
UseRank(key) ==
    IF key \notin Range(uses) THEN Len(uses) + 1
    ELSE CHOOSE i \in DOMAIN uses : uses[i] = key
\* The least recently used key of a set of keys.
LeastRecentlyUsed(keys) ==
    CHOOSE k \in keys : \A j \in keys : UseRank(j) <= UseRank(k)
\* The entry a get read was expired when the get looked at it.
FoundExpired(c) ==
    /\ c.entry # <<>>
    /\ c.entry[1].expires_at # <<>>
    /\ c.at >= c.entry[1].expires_at[1] - DEFAULT_SCM_CACHE_SKEW_SECONDS

\* C40: when an add of a new key returns, it has evicted an entry only if the
\* cache was full, and then exactly the entry whose last use (a get that
\* returned it, or an add of its key) is the oldest; a get that found its
\* entry expired returns None and leaves the key out of the cache, and a get
\* that returns a client returns the client of an entry it found unexpired.
C40_EvictsLeastRecentlyUsed ==
    [][\A t \in CacheThreads :
          LET c == cache_calls[t]
              before == (DOMAIN items \ {c.key}) \cup Range(c.evicted)
          IN /\ c.pc = "add_trim" /\ cache_calls'[t].pc = "idle" =>
                   IF Cardinality(before) = size
                   THEN c.evicted = <<LeastRecentlyUsed(before)>>
                   ELSE c.evicted = <<>>
             /\ c.op = "get" /\ c.pc # "idle" /\ cache_calls'[t].pc = "idle" =>
                   /\ FoundExpired(c) =>
                         /\ cache_calls'[t].returned = <<None>>
                         /\ c.key \notin DOMAIN items'
                         /\ c.key \notin Range(order')
                   /\ cache_calls'[t].returned # <<None>> =>
                         /\ c.entry # <<>>
                         /\ ~FoundExpired(c)
                         /\ cache_calls'[t].returned = <<c.entry[1].client>>
                         /\ uses'[1] = c.key]_vars

\* C40 witness: after a get of thread b was served, an add of thread a has
\* put a new key into the full cache and evicted the key used longest ago.
C40_Witness ==
    /\ cache_calls["a"].pc = "add_trim"
    /\ Len(uses) = size
    /\ uses = <<"k1", "k2">>
    /\ cache_calls["a"].key = "k3"
    /\ cache_calls["a"].evicted = <<"k2">>
    /\ cache_calls["b"].op = "get"
    /\ cache_calls["b"].returned = <<SCMClient>>
====
